---- MODULE Spec2Model ----
(***************************************************************************)
(* Model of the live trader of Self/RossCameron-Algo.py: the TradingAlgo   *)
(* callbacks (orderStatus, execDetails), check_and_trade and the           *)
(* monitoring loop of __main__, together with the broker they talk to.     *)
(*                                                                         *)
(* The main thread is cut at its time.sleep() calls: the code between two  *)
(* sleeps is one step, and the callback thread (app.run) and the clock     *)
(* may run between two steps.  A callback is delivered together with the   *)
(* broker event that causes it.  Requests to the broker (placeOrder,       *)
(* cancelOrder) travel in a FIFO, the socket, and the broker handles them  *)
(* one at a time.                                                          *)
(*                                                                         *)
(* Prices are integers, in cents.  A dictionary is a function over the     *)
(* symbols; a key that is absent holds 0 (order ids and prices of the      *)
(* program are never 0) or -1 (pending_entry_time).                        *)
(***************************************************************************)
EXTENDS Integers, Sequences, FiniteSets, TLC

\* ------------------------------------------------------------ bounds
\* Order ids the run may hand out (nextOid stops there).
MaxOid == 4
\* Last day of the run; day 0 is the first.
MaxDay == 1

\* ------------------------------------------------------------ inputs
\* symbols = [...][:3], scanned in this order by every for loop of __main__.
SymOrder == <<"A">>
Symbols == {SymOrder[i] : i \in 1..Len(SymOrder)}

\* Ask prices the market data may report (cents).
AskPrices == {9000}
\* Pullback lows detect_pullback_and_new_high may return (cents).
PullbackLows == {8500}
\* Bid prices the market data may report (cents); 0 stands for no bid tick
\* received within the sleep.
BidPrices == {0, 8500, 9000, 9920}
\* Lows of the 10-second bars app.bars[symbol] may hold when check_dynamic_exit
\* reads it (the list is emptied before every request, and filled by the
\* historicalData callbacks that arrive until the read).
BarLows == {<<>>, <<2, 1>>, <<1, 2>>}

\* Seconds of the day (EST) at which the clock is observed: 4:00:00, 9:29:58,
\* 9:30:00, 9:35:00, 15:24:58 and 15:25:00.
TodPoints == {14400, 34198, 34200, 34500, 55498, 55500}
DaySeconds == 24 * 3600
ClockPoints == {d * DaySeconds + t : d \in 0..MaxDay, t \in TodPoints}

VARIABLES
    now,                 \* time.time(), seconds, shifted to EST
    pc, idx,             \* position of the main thread, and its loop index
    oid,                 \* app.oid
    in_position, pending_entry, position, premarket_entry,
    entry_order_id, profit_order_id, stop_order_id,
    pending_entry_time, entry_price, stop_price, profit_target_price,
    exit_order,          \* the global exit_order of __main__ (unbound at first)
    bid_price,           \* app.bid_price (0: no bid tick since the last request)
    result,              \* result["status"] of the last check_and_trade call
    cancelled_stale,     \* that call went through its stale-entry branch
    orders,              \* every order placed, by id, with its state at the broker
    outbox               \* requests sent and not yet handled by the broker

progVars == <<in_position, pending_entry, position, premarket_entry,
              entry_order_id, profit_order_id, stop_order_id,
              pending_entry_time, entry_price, stop_price, profit_target_price>>
\* What only the main thread writes.
mainVars == <<exit_order, bid_price, result, cancelled_stale>>
vars == <<now, pc, idx, oid, progVars, mainVars, orders, outbox>>
\* What the live trader holds besides its clock and the place of its main thread.
liveOwn == <<oid, progVars, mainVars, orders, outbox>>

\* The market data of the live trader: what check_and_trade requests and the
\* callbacks historicalData and tickPrice store.  The clock and the place of
\* the main thread (now, pc, idx) are the ones above.
VARIABLES
    current_symbol,      \* app.current_symbol ("" for None)
    bars, bars_1min,     \* app.bars, app.bars_1min (<<>>: no key, or an empty list)
    ask_price,           \* app.ask_price (0: no key)
    vwap_last_update,    \* app.vwap_last_update (-1: no key)
    vwap_cache,          \* app.vwap_cache ("": no key)
    wire,                \* requests the broker has not answered yet
    need_vwap_refresh,   \* local of check_and_trade
    current_price,       \* local of check_and_trade (0 before its assignment)
    calls,               \* check_and_trade calls begun
    submitted            \* the symbol whose entry order was submitted ("": none)

feedOwn == <<current_symbol, bars, bars_1min, ask_price, vwap_last_update,
             vwap_cache, wire, need_vwap_refresh, current_price, calls,
             submitted>>

\* An AlertConditionSet of Self/AlertScanner/conditions.py and its conditions.
VARIABLES
    triggered_reason,    \* condition.triggered_reason, by place in self.conditions
    triggered_reasons,   \* AlertConditionSet.triggered_reasons
    check_calls,         \* check_all calls so far; the data of call c is data c
    passing,             \* the conditions whose check passes on the last data
    evaluated,           \* the conditions the last check_all called, in order
    returned             \* what the last check_all returned

condOwn == <<triggered_reason, triggered_reasons, check_calls, passing,
             evaluated, returned>>

\* A RealtimeAlertScanner of Self/AlertScanner/realtime_scanner.py with the
\* RealtimeSymbolMonitor of one symbol, and the threads that call them.
VARIABLES
    clock,               \* datetime.now(), seconds
    monitor_lock,        \* RealtimeSymbolMonitor.lock: 0 free, or the holder
    scanner_lock,        \* RealtimeAlertScanner.lock: 0 free, or the holder
    last_tick,           \* last_price, last_volume, last_vwap of the monitor
    last_alert_time,     \* RealtimeSymbolMonitor.last_alert_time (-1: None)
    update_count,        \* RealtimeAlertScanner.update_count
    alert_callbacks,     \* RealtimeAlertScanner.alert_callbacks: what each does
    stack,               \* the calls each thread is in, the innermost last
    eval_log,            \* every check_conditions so far: time, verdict, result
    errors_printed,      \* "Error in alert callback" lines printed
    escaped,             \* an exception has left update
    calls_made           \* calls of update, check_conditions, get_market_data

scanOwn == <<clock, monitor_lock, scanner_lock, last_tick, last_alert_time,
             update_count, alert_callbacks, stack, eval_log, errors_printed,
             escaped, calls_made>>

\* The BacktestEngine of Self/RossCameron-Backtest.py in run_backtest.
VARIABLES
    bar,                 \* the bars run_backtest has gone through
    bt_position,         \* self.position: its entry_bar_idx (0: None)
    trades,              \* self.trades: entry bar, exit bar, exit_reason
    checks,              \* the checks made on the last bar, in order
    finished             \* the loop is over and the last position closed

backOwn == <<bar, bt_position, trades, checks, finished>>

\* The money of the BacktestEngine: what enter_position and exit_position
\* keep (amounts in cents).
VARIABLES
    capital,             \* self.capital
    held,                \* self.position: what was bought (no shares: None)
    ledger               \* self.trades: pnl, pnl_gross and commission of each

ledgerOwn == <<capital, held, ledger>>

\* The data the replay engine and a RealtimeSymbolMonitor hold.
VARIABLES
    bars_10s_list,       \* the lows of df_10s.to_dict('records') (<<>>: not loaded)
    price_history,       \* RealtimeSymbolMonitor.price_history: (timestamp, price)
    volume_history       \* RealtimeSymbolMonitor.volume_history: (timestamp, volume)

dataOwn == <<bars_10s_list, price_history, volume_history>>

\* A function of the program called on its own.
VARIABLES
    args,                \* the arguments of the calls made so far
    ret                  \* what the last call returned (<<>>: no call yet)

callOwn == <<args, ret>>

\* What the steps of the live trader's order handling leave alone.
outsideLive == <<feedOwn, condOwn, scanOwn, backOwn, ledgerOwn, dataOwn, callOwn>>
\* What the steps of the market data leave alone.
outsideFeed == <<liveOwn, condOwn, scanOwn, backOwn, ledgerOwn, dataOwn, callOwn>>
\* What the steps of the condition set leave alone.
outsideCond == <<vars, feedOwn, scanOwn, backOwn, ledgerOwn, dataOwn, callOwn>>
\* What the steps of the scanner leave alone.
outsideScan == <<vars, feedOwn, condOwn, backOwn, ledgerOwn, dataOwn, callOwn>>
\* What the steps of the backtest leave alone.
outsideBack == <<vars, feedOwn, condOwn, scanOwn, ledgerOwn, dataOwn, callOwn>>
allVars == <<vars, feedOwn, condOwn, scanOwn, backOwn, ledgerOwn, dataOwn, callOwn>>

\* ------------------------------------------------------------ the clock
hour(t) == (t % DaySeconds) \div 3600
minute(t) == (t % 3600) \div 60

is_premarket(t) ==
    \/ hour(t) >= 5 /\ hour(t) <= 8
    \/ hour(t) = 9 /\ minute(t) < 30

is_regular_hours(t) ==
    \/ hour(t) = 9 /\ minute(t) >= 30
    \/ hour(t) >= 10 /\ hour(t) <= 14
    \/ hour(t) = 15 /\ minute(t) <= 30

is_trading_hours(t) == is_premarket(t) \/ is_regular_hours(t)

is_near_close(t) ==
    \/ hour(t) = 15 /\ minute(t) >= 25
    \/ hour(t) >= 16

\* The next instant at which the clock is observed.
NextTime(t) == CHOOSE u \in ClockPoints :
                   u > t /\ \A v \in ClockPoints : v > t => u <= v

\* ------------------------------------------------------------ helpers
Del(d, s) == [d EXCEPT ![s] = 0]
Put(d, s, v) == [d EXCEPT ![s] = v]
Max(a, b) == IF a >= b THEN a ELSE b

\* if app.account_balance is None: app.account_balance = 10000.0 (cents here)
account_balance == 1000000

\* The requests the program writes to the socket.
Place(id) == [kind |-> "place", id |-> id]
Cancel(id) == [kind |-> "cancel", id |-> id]
\* app.cancelOrder(d[symbol]) guarded by "if symbol in d".
CancelIfHeld(d, s) == IF d[s] # 0 THEN <<Cancel(d[s])>> ELSE <<>>

\* An Order object as the program builds it; tag names the program variable
\* that held it, status is its state at the broker, t the time an entry
\* order was placed (0 for a SELL order).
NewOrder(s, action, orderType, qty, price, parentId, transmit, tag) ==
    [sym |-> s, action |-> action, orderType |-> orderType, qty |-> qty,
     price |-> price, parentId |-> parentId, transmit |-> transmit,
     tag |-> tag, status |-> "sent", t |-> IF action = "BUY" THEN now ELSE 0]

\* ------------------------------------------------------------ pure functions
\* round(app.ask_price[symbol] * 1.002, 2)
entry_limit(ask) == (ask * 1002 + 500) \div 1000
\* round(entry_price * (1 + profit_pct), 2), profit_pct = 0.10
profit_limit(entry) == (entry * 110 + 50) \div 100

\* calculate_position_size: $200 per trade, whatever the balance
calculate_position_size(balance, entry, stop) ==
    IF balance <= 0 THEN 0 ELSE Max(20000 \div entry, 1)

\* check_dynamic_exit: on the lows of app.bars[symbol]
check_dynamic_exit(b) ==
    IF Len(b) < 2 THEN FALSE ELSE b[Len(b)] < b[Len(b) - 1]

\* elapsed > 300 in check_and_trade
StaleTimeout == 300
\* An entry that is stale from StaleTimeout on.
is_stale_at_timeout(s) == now - pending_entry_time[s] >= StaleTimeout
is_stale(s) == now - pending_entry_time[s] > StaleTimeout

\* ------------------------------------------------------------ market data
\* The symbols the for loop of __main__ scans when the market data is looked
\* at: two, so that a callback can find the loop at another symbol.
FeedSymbols == <<"A", "B">>
FeedSet == {FeedSymbols[i] : i \in 1..Len(FeedSymbols)}
FeedNoSym(v) == [s \in FeedSet |-> v]

\* ------------------------------------------------------------ alert conditions
\* The conditions of a set (RealtimeAlertScanner._initialize_monitors and
\* BacktestAlertScanner register three), by place in self.conditions.
NumConditions == 3
Conditions == 1..NumConditions

\* ------------------------------------------------------------ realtime scanner
\* The threads that call the scanner.
Threads == {1, 2}
\* last_price, last_volume and last_vwap before the first update (None).
NoTick == [price |-> 0, volume |-> 0, vwap |-> 0]

\* ------------------------------------------------------------ backtest money
\* BacktestEngine(initial_capital=500.0), in cents.
initial_capital == 50000
\* self.position = None
NoHolding == [entry_price |-> 0, shares |-> 0, buy_commission |-> 0]

\* ------------------------------------------------------------ initial state
\* exit_order before its first assignment.
Unbound == [orderType |-> "unbound", qty |-> 0, price |-> 0]

NoSym(v) == [s \in Symbols |-> v]

\* TradingAlgo.__init__, after nextValidId and the account summary.
Init ==
    /\ now = NextTime(-1)
    /\ pc = "loop" /\ idx = 1
    /\ oid = 0
    /\ in_position = NoSym(FALSE) /\ pending_entry = NoSym(FALSE)
    /\ position = NoSym(0) /\ premarket_entry = NoSym(FALSE)
    /\ entry_order_id = NoSym(0) /\ profit_order_id = NoSym(0)
    /\ stop_order_id = NoSym(0)
    /\ pending_entry_time = NoSym(-1)
    /\ entry_price = NoSym(0) /\ stop_price = NoSym(0)
    /\ profit_target_price = NoSym(0)
    /\ exit_order = Unbound
    /\ bid_price = NoSym(0)
    /\ result = NoSym("")
    /\ cancelled_stale = FALSE
    /\ orders = <<>>
    /\ outbox = <<>>
    /\ current_symbol = ""
    /\ bars = FeedNoSym(<<>>) /\ bars_1min = FeedNoSym(<<>>)
    /\ ask_price = FeedNoSym(0)
    /\ vwap_last_update = FeedNoSym(-1)
    /\ vwap_cache = FeedNoSym("")
    /\ wire = <<>>
    /\ need_vwap_refresh = TRUE
    /\ current_price = 0
    /\ calls = 0
    /\ submitted = ""
    /\ triggered_reason = [i \in Conditions |-> ""]
    /\ triggered_reasons = <<>>
    /\ check_calls = 0
    /\ passing = {}
    /\ evaluated = <<>>
    /\ returned = FALSE
    /\ clock = 0
    /\ monitor_lock = 0 /\ scanner_lock = 0
    /\ last_tick = NoTick
    /\ last_alert_time = -1
    /\ update_count = 0
    /\ alert_callbacks = <<>>
    /\ stack = [t \in Threads |-> <<>>]
    /\ eval_log = <<>>
    /\ errors_printed = 0
    /\ escaped = FALSE
    /\ calls_made = 0
    /\ bar = 0
    /\ bt_position = 0
    /\ trades = <<>>
    /\ checks = <<>>
    /\ finished = FALSE
    /\ capital = initial_capital
    /\ held = NoHolding
    /\ ledger = <<>>
    /\ bars_10s_list = <<>>
    /\ price_history = <<>>
    /\ volume_history = <<>>
    /\ args = <<>>
    /\ ret = <<>>

\* The for loops of the main thread: on to the next symbol (the loop goes on
\* at `same`), or out of the loop (the thread goes on at `after`).
NextSymbol(same, after) ==
    IF idx < Len(SymOrder)
    THEN idx' = idx + 1 /\ pc' = same
    ELSE idx' = 1 /\ pc' = after

\* After the scan the display is printed, then: if is_regular_hours(): the
\* transition for loop, else the monitoring for loop.
after_scan == IF is_regular_hours(now) THEN "transition_sym" ELSE "monitor"

\* (A clean-up that leaves the tracked quantity as it is.)
CleanupKeepsQuantity(s) ==
    /\ in_position' = Put(in_position, s, FALSE)
    /\ entry_order_id' = Del(entry_order_id, s)
    /\ profit_order_id' = Del(profit_order_id, s)
    /\ stop_order_id' = Del(stop_order_id, s)
    /\ premarket_entry' = Put(premarket_entry, s, FALSE)
    /\ entry_price' = Del(entry_price, s)
    /\ stop_price' = Del(stop_price, s)
    /\ profit_target_price' = Del(profit_target_price, s)
    /\ UNCHANGED <<position, pending_entry, pending_entry_time>>

\* The tracking clean-up shared by execDetails, the near-close branch and the
\* dynamic exit.
CleanupAll(s) ==
    /\ in_position' = Put(in_position, s, FALSE)
    /\ position' = Put(position, s, 0)
    /\ entry_order_id' = Del(entry_order_id, s)
    /\ profit_order_id' = Del(profit_order_id, s)
    /\ stop_order_id' = Del(stop_order_id, s)
    /\ premarket_entry' = Put(premarket_entry, s, FALSE)
    /\ entry_price' = Del(entry_price, s)
    /\ stop_price' = Del(stop_price, s)
    /\ profit_target_price' = Del(profit_target_price, s)
    /\ UNCHANGED <<pending_entry, pending_entry_time>>

\* ------------------------------------------------------------ callbacks
\* TradingAlgo.orderStatus
orderStatus(orderId, status, filled, avgFillPrice) ==
    LET match == {s \in Symbols : entry_order_id[s] = orderId} IN
    IF match = {}
    THEN UNCHANGED progVars
    ELSE LET s == CHOOSE x \in match : TRUE IN
         IF status = "Filled"
         THEN /\ in_position' = Put(in_position, s, TRUE)
              /\ pending_entry' = Put(pending_entry, s, FALSE)
              /\ position' = Put(position, s, filled)
              /\ entry_price' = Put(entry_price, s, avgFillPrice)
              /\ UNCHANGED <<premarket_entry, entry_order_id, profit_order_id,
                             stop_order_id, pending_entry_time, stop_price,
                             profit_target_price>>
         ELSE IF status = "Cancelled"
         THEN /\ pending_entry' = Put(pending_entry, s, FALSE)
              /\ premarket_entry' = Put(premarket_entry, s, FALSE)
              /\ pending_entry_time' = Put(pending_entry_time, s, -1)
              /\ UNCHANGED <<in_position, position, entry_order_id,
                             profit_order_id, stop_order_id, entry_price,
                             stop_price, profit_target_price>>
         ELSE UNCHANGED progVars

\* TradingAlgo.execDetails
execDetails(symbol, side, shares) ==
    IF side = "SLD" /\ in_position[symbol]
    THEN IF position[symbol] - shares <= 0
         THEN CleanupAll(symbol)
         ELSE /\ position' = Put(position, symbol, position[symbol] - shares)
              /\ UNCHANGED <<in_position, pending_entry, premarket_entry,
                             entry_order_id, profit_order_id, stop_order_id,
                             pending_entry_time, entry_price, stop_price,
                             profit_target_price>>
    ELSE UNCHANGED progVars

\* ------------------------------------------------------------ the main loop
\* if not is_trading_hours(): time.sleep(60); continue
OutsideHours ==
    /\ UNCHANGED outsideLive
    /\ pc = "loop"
    /\ ~is_near_close(now)
    /\ ~is_trading_hours(now)
    /\ UNCHANGED vars

\* while True: if is_near_close(): one symbol of its for loop.
NearCloseStep ==
    /\ UNCHANGED outsideLive
    /\ \/ pc = "loop" /\ is_near_close(now)
       \/ pc = "near_close"
    /\ LET s == SymOrder[idx] IN
       IF in_position[s] /\ position[s] > 0
       THEN /\ oid < MaxOid
            /\ oid' = oid + 1
            /\ orders' = Append(orders,
                   NewOrder(s, "SELL", "MKT", position[s], 0, 0, TRUE, "close_order"))
            /\ outbox' = outbox \o CancelIfHeld(profit_order_id, s)
                                \o CancelIfHeld(stop_order_id, s)
                                \o <<Place(oid + 1)>>
            /\ CleanupAll(s)
       ELSE IF pending_entry[s]
       THEN /\ outbox' = outbox \o CancelIfHeld(entry_order_id, s)
            /\ pending_entry' = Put(pending_entry, s, FALSE)
            /\ entry_order_id' = Del(entry_order_id, s)
            /\ premarket_entry' = Put(premarket_entry, s, FALSE)
            /\ stop_price' = Del(stop_price, s)
            /\ profit_target_price' = Del(profit_target_price, s)
            /\ UNCHANGED <<oid, orders, in_position, position, profit_order_id,
                           stop_order_id, pending_entry_time, entry_price>>
       ELSE UNCHANGED <<oid, orders, outbox, progVars>>
    /\ NextSymbol("near_close", "loop")
    /\ UNCHANGED <<now, mainVars>>

\* ------------------------------------------------------------ check_and_trade
\* The stale-pending branch: cancel the entry order and forget it.
StaleCancel(s) ==
    /\ outbox' = outbox \o CancelIfHeld(entry_order_id, s)
    /\ entry_order_id' = Del(entry_order_id, s)
    /\ pending_entry' = Put(pending_entry, s, FALSE)
    /\ pending_entry_time' = Put(pending_entry_time, s, -1)
    /\ premarket_entry' = Put(premarket_entry, s, FALSE)
    /\ stop_price' = Del(stop_price, s)
    /\ profit_target_price' = Del(profit_target_price, s)
    /\ UNCHANGED <<in_position, position, profit_order_id, stop_order_id,
                   entry_price>>

\* A check_and_trade that only looks at the open position.
returns_early_open_only(s) == in_position[s]

\* check_and_trade returns at once: IN POSITION, or PENDING ENTRY.
returns_early(s) ==
    \/ in_position[s]
    \/ /\ pending_entry[s]
       /\ \/ pending_entry_time[s] = -1
          \/ ~is_stale(s)

\* check_and_trade up to its first time.sleep after the position and pending
\* checks: it returns early, or (after cancelling a stale entry) requests the
\* bars and waits.
CheckAndTradeStart ==
    /\ UNCHANGED outsideLive
    /\ \/ pc = "loop" /\ ~is_near_close(now) /\ is_trading_hours(now)
       \/ pc = "trade"
    /\ LET s == SymOrder[idx] IN
       IF returns_early(s)
       THEN /\ NextSymbol("trade", after_scan)
            /\ result' = Put(result, s, IF in_position[s] THEN "IN POSITION"
                                        ELSE "PENDING ENTRY")
            /\ cancelled_stale' = FALSE
            /\ UNCHANGED <<progVars, outbox>>
       ELSE /\ IF pending_entry[s]
               THEN StaleCancel(s)
               ELSE UNCHANGED <<progVars, outbox>>
            /\ cancelled_stale' = pending_entry[s]
            /\ pc' = "trade_wait" /\ idx' = idx
            /\ UNCHANGED result
    /\ UNCHANGED <<now, oid, exit_order, bid_price, orders>>

\* parent.transmit = True  # Always transmit entry order
parent_transmit == TRUE

\* An entry that is a bracket in every session.
entry_orders_bracket(s, qty, entry, stop, profit, in_premarket) ==
    <<NewOrder(s, "BUY", "LMT", qty, entry, 0, parent_transmit, "parent"),
      NewOrder(s, "SELL", "LMT", qty, profit, oid + 1, FALSE, "profit_taker"),
      NewOrder(s, "SELL", "STP", qty, stop, oid + 1, TRUE, "stop_loss")>>

\* The orders check_and_trade places for an entry, in the order it places them.
entry_orders(s, qty, entry, stop, profit, in_premarket) ==
    LET parent == NewOrder(s, "BUY", "LMT", qty, entry, 0, parent_transmit, "parent")
        profit_taker == NewOrder(s, "SELL", "LMT", qty, profit, oid + 1, FALSE,
                                 "profit_taker")
        stop_loss == NewOrder(s, "SELL", "STP", qty, stop, oid + 1, TRUE, "stop_loss")
    IN IF in_premarket THEN <<parent>> ELSE <<parent, profit_taker, stop_loss>>

PlaceAll(n) == [i \in 1..n |-> Place(oid + i)]

\* round(pullback_low_price, 2): the low is in hundredths of a cent, the
\* stop in cents (the lows drawn are no ties).
stop_limit(pullback_low_price) == (pullback_low_price + 50) \div 100

\* check_and_trade from the data it waited for to its return: no signal (or
\* data missing), or the trade plan and the orders.  The ask is one of asks
\* (cents), the pullback low one of lows (hundredths of a cent).
PlaceOn(asks, lows) ==
    /\ UNCHANGED outsideLive
    /\ pc = "trade_wait"
    /\ LET s == SymOrder[idx] IN
       \E all_pass \in BOOLEAN, ask \in asks, pullback_low_price \in lows :
         LET entry == entry_limit(ask)
             stop == stop_limit(pullback_low_price)
             profit == profit_limit(entry)
             qty == calculate_position_size(account_balance, entry, stop)
             in_premarket == is_premarket(now)
             new == entry_orders(s, qty, entry, stop, profit, in_premarket)
         IN IF ~all_pass \/ entry - stop <= 0 \/ qty <= 0
            THEN /\ result' = Put(result, s,
                                  IF ~all_pass THEN "WAITING"
                                  ELSE IF entry - stop <= 0 THEN "INVALID STOP"
                                  ELSE "INVALID SIZE")
                 /\ UNCHANGED <<oid, progVars, orders, outbox>>
            ELSE /\ oid + Len(new) <= MaxOid
                 /\ result' = Put(result, s, "ORDER PLACED")
                 /\ oid' = oid + Len(new)
                 /\ stop_price' = Put(stop_price, s, stop)
                 /\ profit_target_price' = Put(profit_target_price, s, profit)
                 /\ IF in_premarket
                    THEN UNCHANGED <<profit_order_id, stop_order_id>>
                    ELSE /\ profit_order_id' = Put(profit_order_id, s, oid + 2)
                         /\ stop_order_id' = Put(stop_order_id, s, oid + 3)
                 /\ entry_order_id' = Put(entry_order_id, s, oid + 1)
                 /\ pending_entry' = Put(pending_entry, s, TRUE)
                 /\ pending_entry_time' = Put(pending_entry_time, s, now)
                 /\ premarket_entry' = IF in_premarket
                                       THEN Put(premarket_entry, s, TRUE)
                                       ELSE premarket_entry
                 /\ orders' = orders \o new
                 /\ outbox' = outbox \o PlaceAll(Len(new))
                 /\ UNCHANGED <<in_position, position, entry_price>>
    /\ NextSymbol("trade", after_scan)
    /\ UNCHANGED <<now, exit_order, bid_price, cancelled_stale>>

CheckAndTradePlace ==
    /\ pc = "trade_wait"
    /\ PlaceOn(AskPrices, {100 * low : low \in PullbackLows})

\* ------------------------------------------------------------ session transition
\* in_position and premarket_entry and symbol not in app.stop_order_id
needs_protective(s) ==
    in_position[s] /\ premarket_entry[s] /\ stop_order_id[s] = 0

\* The profit taker and the stop loss added for a pre-market position once
\* regular hours have begun (the same body at both places of the loop).
AddProtective(s) ==
    IF stop_price[s] > 0 /\ profit_target_price[s] > 0 /\ position[s] > 0
    THEN /\ oid + 2 <= MaxOid
         /\ oid' = oid + 2
         /\ orders' = orders \o
                <<NewOrder(s, "SELL", "LMT", position[s], profit_target_price[s],
                           0, TRUE, "added_profit_taker"),
                  NewOrder(s, "SELL", "STP", position[s], stop_price[s],
                           0, TRUE, "added_stop_loss")>>
         /\ outbox' = outbox \o PlaceAll(2)
         /\ profit_order_id' = Put(profit_order_id, s, oid + 1)
         /\ stop_order_id' = Put(stop_order_id, s, oid + 2)
         /\ premarket_entry' = Put(premarket_entry, s, FALSE)
         /\ UNCHANGED <<in_position, pending_entry, position, entry_order_id,
                        pending_entry_time, entry_price, stop_price,
                        profit_target_price>>
    ELSE UNCHANGED <<oid, orders, outbox, progVars>>

\* One symbol of the transition for loop.
TransitionStep ==
    /\ UNCHANGED outsideLive
    /\ pc = "transition_sym"
    /\ LET s == SymOrder[idx] IN
       IF needs_protective(s)
       THEN AddProtective(s)
       ELSE UNCHANGED <<oid, orders, outbox, progVars>>
    /\ NextSymbol("transition_sym", "monitor")
    /\ UNCHANGED <<now, mainVars>>

\* ------------------------------------------------------------ exit monitoring
\* One symbol of the monitoring for loop, up to the sleep after the bar request.
MonitorStart ==
    /\ UNCHANGED outsideLive
    /\ pc = "monitor"
    /\ LET s == SymOrder[idx] IN
       IF ~in_position[s]
       THEN /\ NextSymbol("monitor", "loop")
            /\ UNCHANGED <<oid, orders, outbox, progVars>>
       ELSE /\ IF is_regular_hours(now) /\ needs_protective(s)
               THEN AddProtective(s)
               ELSE UNCHANGED <<oid, orders, outbox, progVars>>
            /\ pc' = "mon_bars" /\ idx' = idx
    /\ UNCHANGED <<now, mainVars>>

\* The clean-up after a pre-market stop or target exit.
CleanupPremarket(s) ==
    /\ in_position' = Put(in_position, s, FALSE)
    /\ position' = Put(position, s, 0)
    /\ premarket_entry' = Put(premarket_entry, s, FALSE)
    /\ entry_order_id' = Del(entry_order_id, s)
    /\ entry_price' = Del(entry_price, s)
    /\ stop_price' = Del(stop_price, s)
    /\ profit_target_price' = Del(profit_target_price, s)
    /\ UNCHANGED <<pending_entry, profit_order_id, stop_order_id,
                   pending_entry_time>>

\* The exit of the regular-hours branch of the dynamic exit: cancel the
\* profit taker and the stop loss, sell at the market.
RegularDynamicExit(s) ==
    /\ oid < MaxOid
    /\ oid' = oid + 1
    /\ exit_order' = [orderType |-> "MKT", qty |-> position[s], price |-> 0]
    /\ orders' = Append(orders,
           NewOrder(s, "SELL", "MKT", position[s], 0, 0, TRUE, "exit_order"))
    /\ outbox' = outbox \o CancelIfHeld(profit_order_id, s)
                        \o CancelIfHeld(stop_order_id, s)
                        \o <<Place(oid + 1)>>
    /\ CleanupAll(s)

\* should_exit, exit_msg = check_dynamic_exit(app, symbol), and what follows
\* it up to the next sleep.
DynamicExitCheck(s, b) ==
    IF check_dynamic_exit(b) /\ position[s] > 0
    THEN IF is_premarket(now)
         THEN /\ pc' = "mon_dynbid" /\ idx' = idx
              /\ UNCHANGED <<oid, orders, outbox, progVars, exit_order>>
         ELSE /\ RegularDynamicExit(s)
              /\ NextSymbol("monitor", "loop")
    ELSE /\ NextSymbol("monitor", "loop")
         /\ UNCHANGED <<oid, orders, outbox, progVars, exit_order>>

\* app.bid_price after DynamicExitCheck: its pre-market branch deletes the
\* bid before it requests the market data.
bid_after_check(s, b, bid) ==
    IF check_dynamic_exit(b) /\ position[s] > 0 /\ is_premarket(now)
    THEN Del(bid, s) ELSE bid

\* After the bars have arrived: on to the pre-market bid request, or to the
\* dynamic exit check.
MonitorBars ==
    /\ UNCHANGED outsideLive
    /\ pc = "mon_bars"
    /\ LET s == SymOrder[idx] IN
       IF is_premarket(now) /\ premarket_entry[s]
       THEN /\ pc' = "mon_bid" /\ idx' = idx
            /\ bid_price' = Del(bid_price, s)
            /\ UNCHANGED <<oid, orders, outbox, progVars, exit_order>>
       ELSE \E b \in BarLows :
              /\ DynamicExitCheck(s, b)
              /\ bid_price' = bid_after_check(s, b, bid_price)
    /\ UNCHANGED <<now, result, cancelled_stale>>

\* A stop that the bid must go below.
premarket_exit_below(current_bid, stop, profit) ==
    IF current_bid < stop THEN "stop_order"
    ELSE IF current_bid >= profit THEN "profit_order"
    ELSE "none"

\* Which pre-market exit the bid calls for: the stop is compared first.
premarket_exit(current_bid, stop, profit) ==
    IF current_bid <= stop THEN "stop_order"
    ELSE IF current_bid >= profit THEN "profit_order"
    ELSE "none"

\* PRE-MARKET: monitor stop loss and profit target with limit orders.
MonitorBid ==
    /\ UNCHANGED outsideLive
    /\ pc = "mon_bid"
    /\ LET s == SymOrder[idx] IN
       \E current_bid \in BidPrices, b \in BarLows :
         LET which == premarket_exit(current_bid, stop_price[s],
                                     profit_target_price[s])
         IN IF current_bid # 0 /\ which # "none"
            THEN /\ oid < MaxOid
                 /\ oid' = oid + 1
                 /\ orders' = Append(orders,
                        NewOrder(s, "SELL", "LMT", position[s], current_bid,
                                 0, TRUE, which))
                 /\ outbox' = Append(outbox, Place(oid + 1))
                 /\ CleanupPremarket(s)
                 /\ NextSymbol("monitor", "loop")
                 /\ bid_price' = Put(bid_price, s, current_bid)
                 /\ UNCHANGED exit_order
            ELSE /\ DynamicExitCheck(s, b)
                 /\ bid_price' = bid_after_check(s, b,
                                      Put(bid_price, s, current_bid))
    /\ UNCHANGED <<now, result, cancelled_stale>>

\* The pre-market branch of the dynamic exit, after the sleep for the bid:
\* with a bid the limit order is built and placed, and then the lines shared
\* with the regular branch place exit_order once more under a new id; with
\* no bid those lines place whatever exit_order holds, and raise NameError
\* when it is unbound.
MonitorDynBid ==
    /\ UNCHANGED outsideLive
    /\ pc = "mon_dynbid"
    /\ LET s == SymOrder[idx] IN
       \E bid \in BidPrices :
         /\ bid_price' = Put(bid_price, s, bid)
         /\ IF bid # 0
            THEN LET o == NewOrder(s, "SELL", "LMT", position[s], bid, 0, TRUE,
                                   "exit_order")
                 IN /\ oid + 2 <= MaxOid
                    /\ oid' = oid + 2
                    /\ exit_order' = [orderType |-> "LMT", qty |-> position[s],
                                      price |-> bid]
                    /\ orders' = orders \o <<o, o>>
                    /\ outbox' = outbox \o PlaceAll(2)
                    /\ CleanupAll(s)
                    /\ NextSymbol("monitor", "loop")
            ELSE IF exit_order = Unbound
            THEN /\ pc' = "crashed" /\ idx' = idx
                 /\ UNCHANGED <<oid, orders, outbox, progVars, exit_order>>
            ELSE /\ oid < MaxOid
                 /\ oid' = oid + 1
                 /\ orders' = Append(orders,
                        NewOrder(s, "SELL", exit_order.orderType, exit_order.qty,
                                 exit_order.price, 0, TRUE, "exit_order"))
                 /\ outbox' = Append(outbox, Place(oid + 1))
                 /\ CleanupAll(s)
                 /\ NextSymbol("monitor", "loop")
                 /\ UNCHANGED exit_order
    /\ UNCHANGED <<now, result, cancelled_stale>>

\* ------------------------------------------------------------ the broker
\* An order the broker holds and has neither filled nor cancelled.
Working(o) == o.status \in {"held", "attached", "live"}

\* A finished order: the broker keeps what it was, not its terms.
Finished(o, status) ==
    [o EXCEPT !.status = status, !.qty = 0, !.price = 0, !.t = 0]

\* The state an order takes when it is released to the market: a child waits
\* for its parent's fill, and is void when the parent is gone.
Released(ords, o) ==
    IF o.parentId = 0 THEN "live"
    ELSE IF ords[o.parentId].status = "filled" THEN "live"
    ELSE IF ords[o.parentId].status = "cancelled" THEN "cancelled"
    ELSE "attached"

\* placeOrder reaches the broker: an order with transmit = False is held, an
\* order with transmit = True is released together with the held orders of
\* its bracket (its parent and its parent's other children).
Arrive(ords, id) ==
    LET o == ords[id]
        group(j) == /\ ords[j].status = "held"
                    /\ o.parentId # 0
                    /\ (j = o.parentId \/ ords[j].parentId = o.parentId)
        parentLive == [j \in 1..Len(ords) |->
                         IF o.transmit /\ j = o.parentId /\ ords[j].status = "held"
                         THEN [ords[j] EXCEPT !.status = "live"] ELSE ords[j]]
    IN [j \in 1..Len(ords) |->
          IF j = id
          THEN IF ~o.transmit THEN [o EXCEPT !.status = "held"]
               ELSE IF Released(parentLive, o) = "cancelled"
               THEN Finished(o, "cancelled")
               ELSE [o EXCEPT !.status = Released(parentLive, o)]
          ELSE IF o.transmit /\ group(j)
          THEN IF Released(parentLive, ords[j]) = "cancelled"
               THEN Finished(ords[j], "cancelled")
               ELSE [ords[j] EXCEPT !.status = Released(parentLive, ords[j])]
          ELSE ords[j]]

\* An order leaves the market as cancelled, and its waiting children with it.
CancelAt(ords, id) ==
    [j \in 1..Len(ords) |->
       IF j = id \/ (ords[j].parentId = id /\ Working(ords[j]))
       THEN Finished(ords[j], "cancelled") ELSE ords[j]]

\* An order fills: the children of a filled parent go live, the other child
\* of the same parent is cancelled.
FillAt(ords, id) ==
    [j \in 1..Len(ords) |->
       IF j = id THEN Finished(ords[j], "filled")
       ELSE IF ords[j].parentId = id /\ ords[j].status = "attached"
       THEN [ords[j] EXCEPT !.status = "live"]
       ELSE IF /\ ords[id].parentId # 0
               /\ ords[j].parentId = ords[id].parentId
               /\ Working(ords[j])
       THEN Finished(ords[j], "cancelled")
       ELSE ords[j]]

\* The broker handles the next request of the socket.  A cancel of a working
\* order is confirmed by orderStatus(Cancelled); a cancel of an order already
\* filled or cancelled only yields an error message.
BrokerReceive ==
    /\ UNCHANGED outsideLive
    /\ outbox # <<>>
    /\ pc # "crashed"
    /\ LET m == Head(outbox) IN
       IF m.kind = "place"
       THEN /\ orders' = Arrive(orders, m.id)
            /\ UNCHANGED progVars
       ELSE IF Working(orders[m.id])
       THEN /\ orders' = CancelAt(orders, m.id)
            /\ orderStatus(m.id, "Cancelled", 0, 0)
       ELSE UNCHANGED <<orders, progVars>>
    /\ outbox' = Tail(outbox)
    /\ UNCHANGED <<now, pc, idx, oid, mainVars>>

\* Average fill prices the broker may report for a limit order.
FillPrices(o) == IF o.orderType = "LMT" THEN {o.price - 1, o.price} ELSE {o.price}

\* A live BUY order fills: orderStatus(Filled) (its execDetails has side BOT).
BrokerFillBuy ==
    /\ UNCHANGED outsideLive
    /\ pc # "crashed"
    /\ \E id \in 1..Len(orders) :
         /\ orders[id].status = "live"
         /\ orders[id].action = "BUY"
         /\ orders' = FillAt(orders, id)
         /\ \E p \in FillPrices(orders[id]) :
              orderStatus(id, "Filled", orders[id].qty, p)
    /\ UNCHANGED <<now, pc, idx, oid, mainVars, outbox>>

\* A live SELL order fills: execDetails with side SLD (its orderStatus names a
\* SELL order id, which orderStatus looks up among the entry order ids).
BrokerFillSell ==
    /\ UNCHANGED outsideLive
    /\ pc # "crashed"
    /\ \E id \in 1..Len(orders) :
         /\ orders[id].status = "live"
         /\ orders[id].action = "SELL"
         /\ orders' = FillAt(orders, id)
         /\ execDetails(orders[id].sym, "SLD", orders[id].qty)
    /\ UNCHANGED <<now, pc, idx, oid, mainVars, outbox>>

\* The broker cancels a live entry order itself (rejected, cancelled by hand
\* in TWS, a DAY order at the end of its day): orderStatus(Cancelled).
BrokerCancelsEntry ==
    /\ UNCHANGED outsideLive
    /\ pc # "crashed"
    /\ \E id \in 1..Len(orders) :
         /\ orders[id].status = "live"
         /\ orders[id].action = "BUY"
         /\ orders' = CancelAt(orders, id)
         /\ orderStatus(id, "Cancelled", 0, 0)
    /\ UNCHANGED <<now, pc, idx, oid, mainVars, outbox>>

\* time.sleep(2), the shortest sleep of check_and_trade and of the
\* monitoring loop.
ShortSleep == 2
\* The main thread is inside a pass of its loop.
InPass == pc # "loop"

\* Time passes: by no more than a sleep while the main thread is inside a
\* pass, by any time between two passes (passes in which nothing happens).
Tick ==
    /\ UNCHANGED outsideLive
    /\ pc # "crashed"
    /\ \E u \in ClockPoints : u > now
    /\ InPass => NextTime(now) - now <= ShortSleep
    /\ now' = NextTime(now)
    /\ UNCHANGED <<pc, idx, oid, progVars, mainVars, orders, outbox>>

MainThread ==
    \/ OutsideHours \/ NearCloseStep
    \/ CheckAndTradeStart \/ CheckAndTradePlace
    \/ TransitionStep
    \/ MonitorStart \/ MonitorBars \/ MonitorBid \/ MonitorDynBid

Broker ==
    \/ BrokerReceive \/ BrokerFillBuy \/ BrokerFillSell \/ BrokerCancelsEntry

Next == MainThread \/ Broker \/ Tick

Spec == Init /\ [][Next]_vars

\* ------------------------------------------------------------ properties
\* The orders a step places.
NewOrders == SubSeq(orders', Len(orders) + 1, Len(orders'))
\* The step places an entry order for s.
PlacesEntry(s) ==
    \E i \in 1..Len(NewOrders) :
       NewOrders[i].action = "BUY" /\ NewOrders[i].sym = s
\* An order the broker may still fill.
Outstanding(o) == o.status \in {"sent", "held", "attached", "live"}
\* The entry order id is outstanding and was placed at most StaleTimeout ago.
FreshEntry(id) ==
    /\ orders[id].action = "BUY" /\ Outstanding(orders[id])
    /\ now - orders[id].t <= StaleTimeout

\* C1: whenever the broker fills an entry order of a symbol, the callback
\* makes the symbol Open: in_position true, pending_entry false, position the
\* filled quantity and entry_price the average fill price, whatever happened
\* between the placement and the fill (a stale or near-close cancel included).
C1_FilledEntryOpens ==
    [][\A id \in 1..Len(orders) :
          (/\ orders[id].action = "BUY"
           /\ orders[id].status = "live"
           /\ orders'[id].status = "filled")
          => LET s == orders[id].sym IN
             /\ in_position'[s]
             /\ ~pending_entry'[s]
             /\ position'[s] = orders[id].qty
             /\ entry_price'[s] \in FillPrices(orders[id])]_vars

\* C2: check_and_trade places no entry order for a symbol that is Open or
\* has a pending entry (a pending entry older than StaleTimeout has been
\* cancelled and forgotten by then), so that at any time a symbol has at
\* most one entry order outstanding that is not stale, and none while it is
\* Open.
C2_NoSecondEntry ==
    /\ [][\A s \in Symbols :
             PlacesEntry(s) => ~in_position[s] /\ ~pending_entry[s]]_vars
    /\ [](\A s \in Symbols :
            LET fresh == {id \in 1..Len(orders) :
                            orders[id].sym = s /\ FreshEntry(id)}
            IN /\ Cardinality(fresh) <= 1
               /\ in_position[s] => fresh = {})

\* A call has returned PENDING ENTRY and the entry, StaleTimeout old to the
\* second, is still the only one outstanding.
C2_Witness ==
    \E s \in Symbols :
       /\ result[s] = "PENDING ENTRY"
       /\ pending_entry[s]
       /\ now - pending_entry_time[s] = StaleTimeout
       /\ FreshEntry(entry_order_id[s])

\* The step is the first part of a check_and_trade call for s, which finds s
\* PendingEntry with a recorded time.
StartsOnPending(s) ==
    /\ CheckAndTradeStart
    /\ s = SymOrder[idx]
    /\ pending_entry[s] /\ ~in_position[s] /\ pending_entry_time[s] # -1
\* The step is the rest of a check_and_trade call for s that went through
\* the stale-entry branch.
EndsAfterStaleCancel(s) ==
    CheckAndTradePlace /\ s = SymOrder[idx] /\ cancelled_stale
\* What a call does at once with a pending entry older than StaleTimeout: a
\* cancel request for the recorded entry order id, and the pending state
\* forgotten.
CancelsStale(s) ==
    /\ entry_order_id[s] # 0
    /\ outbox' = Append(outbox, Cancel(entry_order_id[s]))
    /\ ~pending_entry'[s] /\ ~in_position'[s]
    /\ entry_order_id'[s] = 0
    /\ pending_entry_time'[s] = -1
    /\ orders' = orders
\* What a call does with a pending entry of age at most StaleTimeout.
LeavesPending(s) ==
    /\ UNCHANGED <<progVars, orders, outbox>>
    /\ result'[s] = "PENDING ENTRY"

\* C3 as stated: a call that finds the entry pending for more than
\* StaleTimeout sends a cancel for the recorded entry order id, leaves the
\* symbol Idle and places no order; a call that finds it pending for at most
\* StaleTimeout leaves everything as it is and returns PENDING ENTRY.
C3_StaleCancelPlacesNothing ==
    [][\A s \in Symbols :
          /\ StartsOnPending(s) =>
                IF now - pending_entry_time[s] > StaleTimeout
                THEN CancelsStale(s) ELSE LeavesPending(s)
          /\ EndsAfterStaleCancel(s) =>
                /\ orders' = orders
                /\ ~pending_entry'[s] /\ ~in_position'[s]
                /\ entry_order_id'[s] = 0]_vars

\* C3, amended: the call cancels and forgets the stale entry as stated, and
\* then goes on to evaluate the symbol like an Idle one: it ends with the
\* symbol Idle and nothing placed, or with a new entry placed under a new
\* order id and the symbol PendingEntry from now.  A pending entry of age at
\* most StaleTimeout is left as it is and the call returns PENDING ENTRY.
C3_StaleCancelThenEvaluates ==
    [][\A s \in Symbols :
          /\ StartsOnPending(s) =>
                IF now - pending_entry_time[s] > StaleTimeout
                THEN CancelsStale(s) ELSE LeavesPending(s)
          /\ EndsAfterStaleCancel(s) =>
                \/ /\ orders' = orders
                   /\ ~pending_entry'[s] /\ ~in_position'[s]
                   /\ entry_order_id'[s] = 0
                   /\ result'[s] # "ORDER PLACED"
                \/ /\ PlacesEntry(s)
                   /\ result'[s] = "ORDER PLACED"
                   /\ pending_entry'[s] /\ ~in_position'[s]
                   /\ entry_order_id'[s] = oid + 1
                   /\ pending_entry_time'[s] = now]_vars

\* A call has cancelled a stale entry and placed a new one: the old order is
\* not recorded any more, the new one is.
C3_Witness ==
    \E s \in Symbols :
       /\ pc # "trade_wait"
       /\ cancelled_stale
       /\ result[s] = "ORDER PLACED"
       /\ pending_entry[s]
       /\ pending_entry_time[s] = now
       /\ \E id \in 1..Len(orders) :
             /\ id < entry_order_id[s]
             /\ orders[id].action = "BUY" /\ orders[id].sym = s
             /\ now - orders[id].t > StaleTimeout
             /\ Outstanding(orders[id])

\* The exit orders the monitoring loop places itself (a pre-market stop or
\* target exit, a dynamic exit), by the variable that holds them.
ExitTags == {"stop_order", "profit_order", "exit_order"}
\* An exit order placed for s has not been filled yet.
ExitOutstanding(s) ==
    \E id \in 1..Len(orders) :
       /\ orders[id].sym = s /\ orders[id].tag \in ExitTags
       /\ Outstanding(orders[id])

\* C4: from the exit order on, the symbol takes no new entry until the fill
\* of the exit order is confirmed: no entry order is placed for a symbol
\* while an exit order of its position is still unfilled.
C4_NoEntryWhileExiting ==
    [][\A s \in Symbols : PlacesEntry(s) => ~ExitOutstanding(s)]_vars

\* The step places the order of a dynamic exit for s.
PlacesDynamicExit(s) ==
    \E i \in 1..Len(NewOrders) :
       NewOrders[i].tag = "exit_order" /\ NewOrders[i].sym = s
\* The step is one of the monitoring loop, after one of its sleeps.
MonitorStep == pc \in {"mon_bars", "mon_bid", "mon_dynbid"} /\ pc' # pc

\* C5: a dynamic exit of a position of q > 0 shares places exactly one SELL
\* order, for q shares: a market order (never in pre-market) after cancel
\* requests for the profit and stop orders recorded, or a limit order at the
\* bid; and the monitoring loop marks a position closed only in a step that
\* places an order.
C5_OneExitOrder ==
    [][\A s \in Symbols :
          /\ PlacesDynamicExit(s) =>
                /\ position[s] > 0
                /\ Len(NewOrders) = 1
                /\ NewOrders[1].action = "SELL"
                /\ NewOrders[1].qty = position[s]
                /\ \/ /\ NewOrders[1].orderType = "MKT"
                      /\ ~is_premarket(now)
                      /\ outbox' = outbox \o CancelIfHeld(profit_order_id, s)
                                          \o CancelIfHeld(stop_order_id, s)
                                          \o <<Place(oid + 1)>>
                   \/ /\ NewOrders[1].orderType = "LMT"
                      /\ bid_price'[s] # 0
                      /\ NewOrders[1].price = bid_price'[s]
          /\ (MonitorStep /\ s = SymOrder[idx]
                /\ in_position[s] /\ ~in_position'[s]) =>
                Len(NewOrders) >= 1]_vars

\* The step handles s in the near-close branch of the loop.
NearCloseFor(s) == NearCloseStep /\ s = SymOrder[idx]
\* What the near-close branch owes a symbol: for an open position the cancel
\* requests of the profit and stop orders recorded and one market SELL for
\* the whole position, for a pending entry the cancel request of the entry
\* order, and the symbol neither Open nor PendingEntry afterwards.
Flattens(s) ==
    /\ ~in_position'[s] /\ ~pending_entry'[s]
    /\ in_position[s] =>
          /\ position[s] > 0
          /\ Len(NewOrders) = 1
          /\ NewOrders[1].action = "SELL"
          /\ NewOrders[1].orderType = "MKT"
          /\ NewOrders[1].qty = position[s]
          /\ outbox' = outbox \o CancelIfHeld(profit_order_id, s)
                              \o CancelIfHeld(stop_order_id, s)
                              \o <<Place(oid + 1)>>
    /\ (~in_position[s] /\ pending_entry[s]) =>
          /\ entry_order_id[s] # 0
          /\ outbox' = Append(outbox, Cancel(entry_order_id[s]))
          /\ orders' = orders

\* C6: at or after the flatten time a pass of the loop flattens every
\* symbol, and no entry order is placed while the clock is at or after the
\* flatten time.
C6_FlattenAtClose ==
    [][\A s \in Symbols :
          /\ NearCloseFor(s) => Flattens(s)
          /\ PlacesEntry(s) => ~is_near_close(now)]_vars

\* The half of C6 the near-close branch itself keeps.
PassFlattens ==
    [][\A s \in Symbols : NearCloseFor(s) => Flattens(s)]_vars

\* The step is one in which the loop looks, in regular hours, at an open
\* position of s entered in pre-market: the transition loop, or the start of
\* the monitoring of s.
LooksAtPremarketPosition(s) ==
    /\ TransitionStep \/ MonitorStart
    /\ s = SymOrder[idx]
    /\ is_regular_hours(now)
    /\ in_position[s] /\ premarket_entry[s]
\* The step places the profit taker and the stop loss of the position of s,
\* at the prices recorded, and nothing else.
PlacesProtective(s) ==
    /\ Len(NewOrders) = 2
    /\ \A i \in 1..2 :
          /\ NewOrders[i].sym = s /\ NewOrders[i].action = "SELL"
          /\ NewOrders[i].qty = position[s]
    /\ position[s] > 0
    /\ NewOrders[1].orderType = "LMT"
    /\ NewOrders[1].price = profit_target_price[s]
    /\ NewOrders[2].orderType = "STP"
    /\ NewOrders[2].price = stop_price[s]
    /\ outbox' = outbox \o PlaceAll(2)
\* The step places an order meant as the protective order of a pre-market
\* position.
PlacesAdded(s) ==
    \E i \in 1..Len(NewOrders) :
       /\ NewOrders[i].sym = s
       /\ NewOrders[i].tag \in {"added_profit_taker", "added_stop_loss"}

\* C7: whenever the loop looks, in regular hours, at an open position that
\* was entered in pre-market and has no protective orders yet, it places the
\* profit taker and the stop loss at the recorded prices for the whole
\* position; and it places them for such a position only, which is then no
\* longer one (once per position).
C7_ProtectiveAfterOpen ==
    [][\A s \in Symbols :
          /\ LooksAtPremarketPosition(s) =>
                PlacesProtective(s) /\ ~premarket_entry'[s]
          /\ PlacesAdded(s) =>
                LooksAtPremarketPosition(s) /\ PlacesProtective(s)]_vars

\* The orders of the bracket of an entry, as check_and_trade is to build
\* them.
IsBracket(new) ==
    /\ Len(new) = 3
    /\ new[1].action = "BUY" /\ new[1].orderType = "LMT"
    /\ new[2].action = "SELL" /\ new[2].orderType = "LMT"
    /\ new[3].action = "SELL" /\ new[3].orderType = "STP"
    /\ new[2].parentId = oid + 1 /\ new[3].parentId = oid + 1
    /\ new[2].qty = new[1].qty /\ new[3].qty = new[1].qty

\* C8: an entry outside pre-market is a bracket of three orders, the two
\* SELL orders children of the BUY order, and the BUY order is never at the
\* market (live, or filled) while a child of it is still on its way to the
\* broker.
C8_BracketAtomic ==
    /\ [][\A s \in Symbols :
             (PlacesEntry(s) /\ ~is_premarket(now)) => IsBracket(NewOrders)]_vars
    /\ [](\A j \in 1..Len(orders) :
            (orders[j].parentId # 0 /\ orders[j].status = "sent")
            => orders[orders[j].parentId].status \in {"sent", "held"})

\* The half of C8 that check_and_trade keeps: the shape of the bracket.
BracketShape ==
    [][\A s \in Symbols :
          (PlacesEntry(s) /\ ~is_premarket(now)) => IsBracket(NewOrders)]_vars

\* The tags of the standing profit and stop orders of a position.
ProtectiveTags ==
    {"profit_taker", "stop_loss", "added_profit_taker", "added_stop_loss"}

\* C9: an entry placed in pre-market is one placeOrder of the entry order
\* alone, with the stop and the target recorded for the symbol and
\* premarket_entry set; and standing profit and stop orders are placed in
\* regular hours only.
C9_PremarketEntryOnly ==
    [][\A s \in Symbols :
          /\ (PlacesEntry(s) /\ is_premarket(now)) =>
                /\ Len(NewOrders) = 1
                /\ NewOrders[1].parentId = 0
                /\ outbox' = Append(outbox, Place(oid + 1))
                /\ stop_price'[s] \in PullbackLows
                /\ stop_price'[s] < NewOrders[1].price
                /\ profit_target_price'[s] = profit_limit(NewOrders[1].price)
                /\ premarket_entry'[s]
          /\ (\E i \in 1..Len(NewOrders) :
                 /\ NewOrders[i].sym = s
                 /\ \/ NewOrders[i].tag \in ProtectiveTags
                    \/ NewOrders[i].orderType = "STP")
             => is_regular_hours(now)]_vars

\* A pre-market entry has just been placed: it is the last order placed, it
\* has no child, and the prices of its plan are recorded.
C9_Witness ==
    \E s \in Symbols :
       /\ is_premarket(now)
       /\ result[s] = "ORDER PLACED"
       /\ pending_entry[s] /\ premarket_entry[s]
       /\ entry_order_id[s] = Len(orders)
       /\ orders[entry_order_id[s]].action = "BUY"
       /\ orders[entry_order_id[s]].t = now
       /\ stop_price[s] > 0 /\ profit_target_price[s] > stop_price[s]
       /\ profit_order_id[s] = 0 /\ stop_order_id[s] = 0

\* The step places one limit SELL at the bid for the whole position of s,
\* held by the variable tag, and nothing else.
OneLimitSell(s, bid, tag) ==
    /\ Len(NewOrders) = 1
    /\ NewOrders[1].sym = s /\ NewOrders[1].tag = tag
    /\ NewOrders[1].action = "SELL" /\ NewOrders[1].orderType = "LMT"
    /\ NewOrders[1].price = bid
    /\ NewOrders[1].qty = position[s] /\ position[s] > 0
    /\ outbox' = Append(outbox, Place(oid + 1))
\* The step places an order held by the variable tag for s.
PlacesTag(s, tag) ==
    \E i \in 1..Len(NewOrders) :
       NewOrders[i].sym = s /\ NewOrders[i].tag = tag

\* C10: when the monitoring of an open pre-market position has a bid, a bid
\* at or below the recorded stop places one limit SELL at the bid for the
\* whole position (the stop exit); otherwise a bid at or above the recorded
\* target places one (the target exit); otherwise neither is placed.  For an
\* open position a stop exit is placed in no other case, and a target exit
\* neither.
C10_PremarketBidExit ==
    [][\A s \in Symbols :
          /\ (MonitorBid /\ s = SymOrder[idx] /\ in_position[s]
                /\ premarket_entry[s] /\ bid_price'[s] # 0) =>
                IF bid_price'[s] <= stop_price[s]
                THEN OneLimitSell(s, bid_price'[s], "stop_order")
                ELSE IF bid_price'[s] >= profit_target_price[s]
                THEN OneLimitSell(s, bid_price'[s], "profit_order")
                ELSE ~PlacesTag(s, "stop_order") /\ ~PlacesTag(s, "profit_order")
          /\ (PlacesTag(s, "stop_order") /\ in_position[s]) =>
                /\ MonitorBid
                /\ NewOrders[1].price <= stop_price[s]
          /\ (PlacesTag(s, "profit_order") /\ in_position[s]) =>
                /\ MonitorBid
                /\ NewOrders[1].price > stop_price[s]
                /\ NewOrders[1].price >= profit_target_price[s]]_vars

\* A stop exit has been placed at a bid that is the stop price to the cent.
C10_Witness ==
    \E id \in 1..Len(orders) :
       /\ orders[id].tag = "stop_order"
       /\ orders[id].status = "sent"
       /\ orders[id].price = bid_price[orders[id].sym]
       /\ orders[id].price \in PullbackLows
       /\ orders[id].qty > 0
       /\ ~in_position[orders[id].sym]

\* ======================================================================
\* The market data of the live trader: the requests of check_and_trade
\* (reqHistoricalData 4001 and 4002, reqMktData 1), the sleeps after them,
\* and the callbacks that store what the broker sends.  The broker answers
\* the requests in the order they were made, each at a time of its own; the
\* answer to a request for historical data is delivered in one piece.
\* The symbols have no position and no pending entry; the run is followed up
\* to its first entry order.
\* ======================================================================

\* check_and_trade calls the run makes.
MaxCalls == 3
\* len(app.bars[symbol]) < 10, len(app.bars_1min[symbol]) < 10
MinBars == 10
\* time.sleep(3) after reqHistoricalData
HistSleep == 3
\* time_since_update < 60
VwapRefresh == 60
\* Bars an answer to reqHistoricalData may hold.
BarCounts == {4, 12}
\* Typical price (high + low + close) / 3 of the bars of an answer (cents);
\* every bar has volume 1.
TypicalPrices == {8900, 9100}
\* Ask prices a tick may report (cents).
AskTicks == {9000, 9200}
\* Seconds from the end of a scan to the next: the sleep that ends a pass, or
\* a pass that waits a minute as well.
Pauses == {3, 63}

\* len(bars): the bars of a list of answers.
BarCount(chunks) ==
    LET f[i \in 0..Len(chunks)] ==
            IF i = 0 THEN 0 ELSE f[i - 1] + chunks[i].n
    IN f[Len(chunks)]
\* total_vp of calculate_vwap: sum of typical price * volume.
TotalVP(chunks) ==
    LET f[i \in 0..Len(chunks)] ==
            IF i = 0 THEN 0 ELSE f[i - 1] + chunks[i].n * chunks[i].tp
    IN f[Len(chunks)]
\* check_above_vwap: calculate_vwap is None under two bars or without
\* volume; otherwise current_price > total_vp / total_volume.
check_above_vwap(bars_1m, price) ==
    /\ BarCount(bars_1m) >= 2
    /\ price * BarCount(bars_1m) > TotalVP(bars_1m)

HistRequest(reqId, s) == [kind |-> "hist", reqId |-> reqId, sym |-> s]
MktRequest(s) == [kind |-> "tick", reqId |-> 1, sym |-> s]

\* check_and_trade returns before it trades: the for loop goes on with the
\* next symbol, or the pass ends and the next one begins.
FeedReturn ==
    /\ pc' = "loop"
    /\ IF idx < Len(FeedSymbols)
       THEN idx' = idx + 1 /\ now' = now
       ELSE idx' = 1 /\ \E p \in Pauses : now' = now + p

\* del app.ask_price[symbol]; reqMktData; time.sleep(2)
AskRequest(s) ==
    /\ ask_price' = Del(ask_price, s)
    /\ wire' = Append(wire, MktRequest(s))
    /\ now' = now + ShortSleep

\* check_and_trade up to its first sleep: current_symbol, the reset of the
\* 10-second bars, the request 4001.
FeedStart ==
    /\ UNCHANGED outsideFeed
    /\ pc = "loop" /\ calls < MaxCalls
    /\ LET s == FeedSymbols[idx] IN
       /\ current_symbol' = s
       /\ bars' = Put(bars, s, <<>>)
       /\ wire' = Append(wire, HistRequest(4001, s))
    /\ calls' = calls + 1
    /\ now' = now + HistSleep
    /\ pc' = "bars_wait"
    /\ UNCHANGED <<idx, bars_1min, ask_price, vwap_last_update, vwap_cache,
                   need_vwap_refresh, current_price, submitted>>

\* need_vwap_refresh as check_and_trade computes it after the first sleep.
vwap_is_due(s) ==
    ~(vwap_last_update[s] # -1 /\ now - vwap_last_update[s] < VwapRefresh)

\* After the first sleep: INSUFFICIENT DATA, or the request 4002 when the
\* VWAP is due, or the request for the ask.
FeedAfterBars ==
    /\ UNCHANGED outsideFeed
    /\ pc = "bars_wait"
    /\ LET s == FeedSymbols[idx] IN
       IF BarCount(bars[s]) < MinBars
       THEN /\ FeedReturn
            /\ UNCHANGED <<bars_1min, ask_price, wire, need_vwap_refresh>>
       ELSE /\ need_vwap_refresh' = vwap_is_due(s)
            /\ idx' = idx
            /\ IF vwap_is_due(s)
               THEN /\ bars_1min' = Put(bars_1min, s, <<>>)
                    /\ wire' = Append(wire, HistRequest(4002, s))
                    /\ now' = now + HistSleep
                    /\ pc' = "min_wait"
                    /\ UNCHANGED ask_price
               ELSE /\ AskRequest(s)
                    /\ pc' = "ask_wait"
                    /\ UNCHANGED bars_1min
    /\ UNCHANGED <<current_symbol, bars, vwap_last_update, vwap_cache,
                   current_price, calls, submitted>>

\* After the sleep for the 1-minute bars: INSUFFICIENT 1M DATA, or
\* vwap_last_update (current_time was read before that sleep) and the
\* request for the ask.
FeedAfterMin ==
    /\ UNCHANGED outsideFeed
    /\ pc = "min_wait"
    /\ LET s == FeedSymbols[idx] IN
       IF BarCount(bars_1min[s]) < MinBars
       THEN /\ FeedReturn
            /\ UNCHANGED <<ask_price, wire, vwap_last_update>>
       ELSE /\ vwap_last_update' = Put(vwap_last_update, s, now - HistSleep)
            /\ AskRequest(s)
            /\ idx' = idx
            /\ pc' = "ask_wait"
    /\ UNCHANGED <<current_symbol, bars, bars_1min, vwap_cache,
                   need_vwap_refresh, current_price, calls, submitted>>

\* The VWAP check reads the cache: no refresh in this call, and a cached
\* result.
uses_cache(s) == ~need_vwap_refresh /\ vwap_cache[s] # ""
\* NO VWAP DATA: no refresh, no cached result, and under ten 1-minute bars.
no_vwap_data(s) ==
    /\ ~need_vwap_refresh /\ vwap_cache[s] = ""
    /\ BarCount(bars_1min[s]) < MinBars
\* vwap_ok of check_and_trade.
vwap_ok(s, price) ==
    IF uses_cache(s)
    THEN vwap_cache[s] = "above"
    ELSE check_above_vwap(bars_1min[s], price)

\* After the sleep for the ask: NO PRICE DATA, or the four conditions; the
\* three over the 10-second bars are inputs.  When all pass and the pattern
\* gave a pullback low, the second request for the ask.
FeedEvaluate ==
    /\ UNCHANGED outsideFeed
    /\ pc = "ask_wait"
    /\ LET s == FeedSymbols[idx] IN
       IF ask_price[s] = 0 \/ no_vwap_data(s)
       THEN /\ FeedReturn
            /\ UNCHANGED <<ask_price, wire, vwap_cache, current_price>>
       ELSE /\ current_price' = ask_price[s]
            /\ vwap_cache' =
                  IF uses_cache(s) THEN vwap_cache
                  ELSE Put(vwap_cache, s,
                           IF check_above_vwap(bars_1min[s], ask_price[s])
                           THEN "above" ELSE "below")
            /\ \E pattern_ok, macd_ok, volume_ok, has_low \in BOOLEAN :
                  IF pattern_ok /\ macd_ok /\ volume_ok
                       /\ vwap_ok(s, ask_price[s]) /\ has_low
                  THEN /\ AskRequest(s)
                       /\ idx' = idx
                       /\ pc' = "ask2_wait"
                  ELSE /\ FeedReturn
                       /\ UNCHANGED <<ask_price, wire>>
    /\ UNCHANGED <<current_symbol, bars, bars_1min, vwap_last_update,
                   need_vwap_refresh, calls, submitted>>

\* After the second sleep for the ask: PRICE ERROR, or the entry order is
\* priced from the new ask; INVALID STOP or INVALID SIZE (an input here), or
\* the order is submitted.
FeedPlace ==
    /\ UNCHANGED outsideFeed
    /\ pc = "ask2_wait"
    /\ LET s == FeedSymbols[idx] IN
       \E valid \in BOOLEAN :
          IF ask_price[s] = 0 \/ ~valid
          THEN FeedReturn /\ UNCHANGED submitted
          ELSE /\ submitted' = s
               /\ pc' = "placed"
               /\ UNCHANGED <<idx, now>>
    /\ UNCHANGED <<current_symbol, bars, bars_1min, ask_price,
                   vwap_last_update, vwap_cache, wire, need_vwap_refresh,
                   current_price, calls>>

\* The historicalData callbacks of one answer: under app.current_symbol, in
\* app.bars for reqId 4001 and in app.bars_1min for reqId 4002.
historicalData ==
    /\ UNCHANGED outsideFeed
    /\ wire # <<>> /\ Head(wire).kind = "hist"
    /\ \E n \in BarCounts, tp \in TypicalPrices :
          LET chunk == [req |-> Head(wire).sym, n |-> n, tp |-> tp] IN
          IF current_symbol = ""
          THEN UNCHANGED <<bars, bars_1min>>
          ELSE IF Head(wire).reqId = 4001
          THEN /\ bars' = [bars EXCEPT ![current_symbol] = Append(@, chunk)]
               /\ UNCHANGED bars_1min
          ELSE /\ bars_1min' =
                     [bars_1min EXCEPT ![current_symbol] = Append(@, chunk)]
               /\ UNCHANGED bars
    /\ wire' = Tail(wire)
    /\ UNCHANGED <<now, pc, idx, current_symbol, ask_price, vwap_last_update,
                   vwap_cache, need_vwap_refresh, current_price, calls,
                   submitted>>

\* The tickPrice callback of an ASK tick: under app.current_symbol.
tickPrice ==
    /\ UNCHANGED outsideFeed
    /\ wire # <<>> /\ Head(wire).kind = "tick"
    /\ \E price \in AskTicks :
          IF current_symbol = ""
          THEN UNCHANGED ask_price
          ELSE ask_price' = Put(ask_price, current_symbol, price)
    /\ wire' = Tail(wire)
    /\ UNCHANGED <<now, pc, idx, current_symbol, bars, bars_1min,
                   vwap_last_update, vwap_cache, need_vwap_refresh,
                   current_price, calls, submitted>>

FeedNext ==
    \/ FeedStart \/ FeedAfterBars \/ FeedAfterMin \/ FeedEvaluate \/ FeedPlace
    \/ historicalData \/ tickPrice

SpecFeed == Init /\ [][FeedNext]_allVars

\* C11: an entry order is submitted only when the ask the call decided on
\* is strictly above the VWAP of the 1-minute bars the symbol has in that
\* call.
C11_EntryAboveVwap ==
    [][\A s \in FeedSet :
          (submitted = "" /\ submitted' = s) =>
              check_above_vwap(bars_1min[s], current_price)]_allVars

\* C17: every bar stored under a symbol was requested for that symbol, and
\* every tick is stored under the symbol it was requested for.
C17_StoredUnderRequested ==
    /\ [](\A s \in FeedSet :
            /\ \A i \in 1..Len(bars[s]) : bars[s][i].req = s
            /\ \A i \in 1..Len(bars_1min[s]) : bars_1min[s][i].req = s)
    /\ [][(wire # <<>> /\ wire' = Tail(wire)) =>
             Head(wire).sym = current_symbol]_allVars

\* ======================================================================
\* AlertConditionSet of Self/AlertScanner/conditions.py: check_all over the
\* registered conditions, get_trigger_reason and get_trigger_summary.  What
\* a condition's check returns on a piece of data is an input; the text of
\* its reason names the condition and the data.
\* ======================================================================

\* check_all calls the run makes.
MaxChecks == 5

\* The reason condition i writes when its check passes on data c.
Reason(i, c) == "reason " \o ToString(i) \o " of data " \o ToString(c)

\* AlertCondition.check of condition i on data c, for a check that passes
\* or fails: triggered_reason after it.
check(reason, i, c, passes) ==
    [reason EXCEPT ![i] = IF passes THEN Reason(i, c) ELSE ""]

\* (check_all without the reset of its first line.)
reasons_kept == triggered_reasons
\* self.triggered_reasons = [] at the start of check_all.
reasons_at_start == <<>>

\* (A loop that goes on after a failed check.)
loop_turn_through(q, i, c, passes) ==
    [reason |-> check(q.reason, i, c, passes),
     reasons |-> IF passes
                 THEN Append(q.reasons, check(q.reason, i, c, passes)[i])
                 ELSE q.reasons,
     seen |-> Append(q.seen, i),
     returned |-> q.returned \/ ~passes]

\* One turn of the for loop of check_all, from the state q the turns before
\* left: nothing after a return; otherwise the check of condition i, then
\* the append of its reason, or return False.
loop_turn(q, i, c, passes) ==
    IF q.returned
    THEN q
    ELSE [reason |-> check(q.reason, i, c, passes),
          reasons |-> IF passes
                      THEN Append(q.reasons, check(q.reason, i, c, passes)[i])
                      ELSE q.reasons,
          seen |-> Append(q.seen, i),
          returned |-> ~passes]
\* check_all on data c, P the conditions whose check passes on it: the state
\* when the function returns (returned: by return False).
check_all(P, c) ==
    LET turn[i \in 0..NumConditions] ==
            IF i = 0
            THEN [reason |-> triggered_reason, reasons |-> reasons_at_start,
                  seen |-> <<>>, returned |-> FALSE]
            ELSE loop_turn(turn[i - 1], i, c, i \in P)
    IN turn[NumConditions]

\* " | ".join(reasons)
Join(reasons) ==
    LET f[i \in 0..Len(reasons)] ==
            IF i = 0 THEN ""
            ELSE IF i = 1 THEN reasons[1]
            ELSE f[i - 1] \o " | " \o reasons[i]
    IN f[Len(reasons)]
get_trigger_summary == Join(triggered_reasons)
get_trigger_reason(i) == triggered_reason[i]

\* A call of check_all.
CheckAll ==
    /\ UNCHANGED outsideCond
    /\ check_calls < MaxChecks
    /\ \E P \in SUBSET Conditions :
          LET after == check_all(P, check_calls + 1) IN
          /\ passing' = P
          /\ triggered_reason' = after.reason
          /\ triggered_reasons' = after.reasons
          /\ evaluated' = after.seen
          /\ returned' = ~after.returned
    /\ check_calls' = check_calls + 1

CondNext == CheckAll

SpecConditions == Init /\ [][CondNext]_allVars

\* The conditions before the first one that fails on the last data, in
\* registration order (all of them when none fails).
PassedFirst ==
    LET n == IF passing = Conditions THEN NumConditions
             ELSE (CHOOSE k \in Conditions :
                      k \notin passing /\ \A j \in 1..(k - 1) : j \in passing) - 1
    IN [i \in 1..n |-> i]

\* C12: check_all returns true exactly when the check of every registered
\* condition returns true; the conditions are evaluated in registration
\* order, and none after the first one that fails.
C12_AllPassShortCircuit ==
    check_calls > 0 =>
       /\ returned = (passing = Conditions)
       /\ evaluated = IF returned THEN PassedFirst
                      ELSE Append(PassedFirst, Len(PassedFirst) + 1)

\* The first condition failed and was the only one evaluated, though the
\* third would have passed.
C12_Witness ==
    /\ check_calls > 1
    /\ passing = {2, 3}
    /\ evaluated = <<1>>
    /\ ~returned

\* C13: the trigger summary holds the reasons of the conditions that passed
\* in the last check_all, in registration order, and nothing else: none of
\* an earlier call.
C13_SummaryOfLastCall ==
    check_calls > 0 =>
       /\ triggered_reasons =
             [i \in 1..Len(PassedFirst) |-> Reason(i, check_calls)]
       /\ get_trigger_summary =
             Join([i \in 1..Len(PassedFirst) |-> Reason(i, check_calls)])

\* The first of the three conditions failed in the last call; the third
\* still holds its reason of an earlier call that passed, and the summary is
\* empty.
C13_Witness ==
    /\ check_calls > 1
    /\ 1 \notin passing
    /\ triggered_reason[3] # ""
    /\ get_trigger_summary = ""

\* C14: after a check_all that returned at a failing condition, every
\* condition registered after that one has an empty trigger reason.
C14_LaterReasonsEmpty ==
    (check_calls > 0 /\ ~returned) =>
       \A j \in Conditions :
          j > Len(evaluated) => get_trigger_reason(j) = ""

\* ======================================================================
\* RealtimeAlertScanner and RealtimeSymbolMonitor of
\* Self/AlertScanner/realtime_scanner.py, for one symbol.  A `with
\* self.lock` block is two steps: the lock is taken, then the block runs
\* and the lock is released.  The verdict of check_all on a snapshot is an
\* input (the histories the monitor keeps only feed it).  An alert callback
\* returns, raises an Exception, or calls update, check_conditions or
\* get_market_data of the same scanner.
\* ======================================================================

\* Calls of update, check_conditions and get_market_data the run makes.
MaxCallsMade == 3
\* self.alert_cooldown_seconds = 5
alert_cooldown_seconds == 5

\* price, volume, vwap of an update.
Ticks == {[price |-> 101, volume |-> 10, vwap |-> 100],
          [price |-> 99, volume |-> 20, vwap |-> 100]}
\* The times at which the clock is read (seconds).
ClockReads == {0, 1, 5, 6}
CallKinds == {"update", "check_conditions", "get_market_data"}
\* What the callbacks registered with on_alert do, in registration order.
CallbackLists == {<<"returns">>, <<"raises", "returns">>, <<"update">>,
                  <<"check_conditions">>, <<"get_market_data">>}
\* The callbacks may still become one of the lists.
Registrable(cbs) ==
    \E list \in CallbackLists :
       Len(cbs) <= Len(list) /\ SubSeq(list, 1, Len(cbs)) = cbs

\* A call as it begins: update with its arguments, at the lock of
\* update_market_data; check_conditions and get_market_data at the lock of
\* get_market_data; get_status_summary (get_all_statuses calls it for the
\* symbol) and get_relative_volume at their own with self.lock.
Frame(kind, arg) ==
    [kind |-> kind,
     pc |-> IF kind = "update" THEN "md_lock"
            ELSE IF kind \in {"get_status_summary", "get_all_statuses"}
            THEN "summary_lock"
            ELSE IF kind = "get_relative_volume" THEN "rel_lock"
            ELSE "get_lock",
     arg |-> IF kind = "update" THEN arg ELSE NoTick,
     data |-> NoTick,
     cb |-> 0]

Top(t) == stack[t][Len(stack[t])]
At(t, where) == stack[t] # <<>> /\ Top(t).pc = where
\* The innermost call of t goes on as frame f.
Goto(t, f) ==
    LET st == stack[t] IN
    stack' = [stack EXCEPT ![t] = [st EXCEPT ![Len(st)] = f]]
\* The innermost call of t returns.
Return(t) ==
    stack' = [stack EXCEPT ![t] = SubSeq(stack[t], 1, Len(stack[t]) - 1)]

\* (A with block that does not release its lock.)
kept_by(t) == t
\* The lock as the end of a with block leaves it.
released_by(t) == 0

\* (A cooldown that is over at alert_cooldown_seconds.)
cooled_down_at_cooldown ==
    \/ last_alert_time = -1
    \/ clock - last_alert_time >= alert_cooldown_seconds
\* last_alert_time is None or (datetime.now() - last_alert_time)
\* .total_seconds() > alert_cooldown_seconds
cooled_down ==
    \/ last_alert_time = -1
    \/ clock - last_alert_time > alert_cooldown_seconds

\* (A call of the callbacks without try.)
except_catches_nothing(raised) == FALSE
\* except Exception
except_catches(raised) == raised = "raises"

\* scanner.on_alert(callback), before the first call.
OnAlert ==
    /\ UNCHANGED outsideScan
    /\ calls_made = 0
    /\ \E does \in {"returns", "raises"} \cup CallKinds :
          /\ Registrable(Append(alert_callbacks, does))
          /\ alert_callbacks' = Append(alert_callbacks, does)
    /\ UNCHANGED <<clock, monitor_lock, scanner_lock, last_tick,
                   last_alert_time, update_count, stack, eval_log,
                   errors_printed, escaped, calls_made>>

\* Time passes.
ClockTick ==
    /\ UNCHANGED outsideScan
    /\ \E later \in ClockReads :
          /\ later > clock
          /\ \A between \in ClockReads : ~(clock < between /\ between < later)
          /\ clock' = later
    /\ UNCHANGED <<monitor_lock, scanner_lock, last_tick, last_alert_time,
                   update_count, alert_callbacks, stack, eval_log,
                   errors_printed, escaped, calls_made>>

\* A thread that is in no call calls update(symbol, price, volume, vwap),
\* monitor.check_conditions() or monitor.get_market_data().
Call(t) ==
    /\ UNCHANGED outsideScan
    /\ stack[t] = <<>>
    /\ calls_made < MaxCallsMade
    /\ \E kind \in CallKinds, arg \in Ticks :
          stack' = [stack EXCEPT ![t] = <<Frame(kind, arg)>>]
    /\ calls_made' = calls_made + 1
    /\ UNCHANGED <<clock, monitor_lock, scanner_lock, last_tick,
                   last_alert_time, update_count, alert_callbacks, eval_log,
                   errors_printed, escaped>>

\* The block that a with self.lock of the monitor guards.
Guarded(at) ==
    IF at = "md_lock" THEN "md"
    ELSE IF at = "get_lock" THEN "get"
    ELSE IF at = "summary_lock" THEN "summary"
    ELSE "rel"

\* with self.lock of update_market_data, get_market_data,
\* get_status_summary and get_relative_volume: the lock (a threading.Lock)
\* is taken when no thread holds it, the caller included.
AcquireMonitor(t) ==
    /\ UNCHANGED outsideScan
    /\ \/ At(t, "md_lock") \/ At(t, "get_lock")
       \/ At(t, "summary_lock") \/ At(t, "rel_lock")
    /\ monitor_lock = 0
    /\ monitor_lock' = t
    /\ Goto(t, [Top(t) EXCEPT !.pc = Guarded(Top(t).pc)])
    /\ UNCHANGED <<clock, scanner_lock, last_tick, last_alert_time,
                   update_count, alert_callbacks, eval_log, errors_printed,
                   escaped, calls_made>>

\* update_market_data under the lock.
UpdateMarketData(t) ==
    /\ UNCHANGED outsideScan
    /\ At(t, "md")
    /\ last_tick' = Top(t).arg
    /\ monitor_lock' = released_by(t)
    /\ Goto(t, [Top(t) EXCEPT !.pc = "count_lock"])
    /\ UNCHANGED <<clock, scanner_lock, last_alert_time, update_count,
                   alert_callbacks, eval_log, errors_printed, escaped,
                   calls_made>>

\* with self.lock of update: the lock is taken.
AcquireScanner(t) ==
    /\ UNCHANGED outsideScan
    /\ At(t, "count_lock")
    /\ scanner_lock = 0
    /\ scanner_lock' = t
    /\ Goto(t, [Top(t) EXCEPT !.pc = "count"])
    /\ UNCHANGED <<clock, monitor_lock, last_tick, last_alert_time,
                   update_count, alert_callbacks, eval_log, errors_printed,
                   escaped, calls_made>>

\* self.update_count += 1 under the lock; then update calls
\* check_conditions.
CountUpdate(t) ==
    /\ UNCHANGED outsideScan
    /\ At(t, "count")
    /\ update_count' = update_count + 1
    /\ scanner_lock' = released_by(t)
    /\ Goto(t, [Top(t) EXCEPT !.pc = "get_lock"])
    /\ UNCHANGED <<clock, monitor_lock, last_tick, last_alert_time,
                   alert_callbacks, eval_log, errors_printed, escaped,
                   calls_made>>

\* get_market_data under the lock: the snapshot of the last values (None
\* before the first update); it is returned to the caller, or to
\* check_conditions.
GetMarketData(t) ==
    /\ UNCHANGED outsideScan
    /\ At(t, "get")
    /\ monitor_lock' = released_by(t)
    /\ IF Top(t).kind = "get_market_data"
       THEN Return(t)
       ELSE Goto(t, [Top(t) EXCEPT !.pc = "evaluate", !.data = last_tick])
    /\ UNCHANGED <<clock, scanner_lock, last_tick, last_alert_time,
                   update_count, alert_callbacks, eval_log, errors_printed,
                   escaped, calls_made>>

\* check_conditions after get_market_data: not triggered without data;
\* otherwise check_all and the test of the cooldown, which reads
\* last_alert_time.  No lock is held.  When the test passes the call goes
\* on to the assignment of last_alert_time; otherwise the result is not
\* triggered and update returns.
CheckConditions(t) ==
    /\ UNCHANGED outsideScan
    /\ At(t, "evaluate")
    /\ IF Top(t).data = NoTick
       THEN /\ Return(t)
            /\ UNCHANGED eval_log
       ELSE \E passed \in BOOLEAN :
               IF passed /\ cooled_down
               THEN /\ Goto(t, [Top(t) EXCEPT !.pc = "stamp"])
                    /\ UNCHANGED eval_log
               ELSE /\ eval_log' = Append(eval_log,
                          [time |-> clock, passed |-> passed,
                           triggered |-> FALSE])
                    /\ Return(t)
    /\ UNCHANGED <<clock, monitor_lock, scanner_lock, last_tick,
                   last_alert_time, update_count, alert_callbacks,
                   errors_printed, escaped, calls_made>>

\* self.last_alert_time = datetime.now() and the triggered result of
\* check_conditions; update goes on to _trigger_alert.
SetLastAlertTime(t) ==
    /\ UNCHANGED outsideScan
    /\ At(t, "stamp")
    /\ last_alert_time' = clock
    /\ eval_log' = Append(eval_log,
          [time |-> clock, passed |-> TRUE, triggered |-> TRUE])
    /\ IF Top(t).kind = "update"
       THEN Goto(t, [Top(t) EXCEPT !.pc = "alert", !.cb = 1])
       ELSE Return(t)
    /\ UNCHANGED <<clock, monitor_lock, scanner_lock, last_tick,
                   update_count, alert_callbacks, errors_printed, escaped,
                   calls_made>>

\* One turn of the for loop of _trigger_alert: the next callback is called
\* inside try; after the last one update returns.  A callback that calls
\* the scanner does so while the loop waits for it (it just returns when
\* the run has no call left).
Callback(t) ==
    /\ UNCHANGED outsideScan
    /\ At(t, "alert")
    /\ LET f == Top(t)
           st == stack[t]
           next == [f EXCEPT !.cb = f.cb + 1]
       IN
       IF f.cb > Len(alert_callbacks)
       THEN Return(t) /\ UNCHANGED <<errors_printed, escaped, calls_made>>
       ELSE LET does == alert_callbacks[f.cb] IN
            IF does = "returns"
            THEN Goto(t, next)
                 /\ UNCHANGED <<errors_printed, escaped, calls_made>>
            ELSE IF does = "raises"
            THEN IF except_catches(does)
                 THEN /\ Goto(t, next)
                      /\ errors_printed' = errors_printed + 1
                      /\ UNCHANGED <<escaped, calls_made>>
                 ELSE /\ stack' = [stack EXCEPT ![t] = <<>>]
                      /\ escaped' = TRUE
                      /\ UNCHANGED <<errors_printed, calls_made>>
            ELSE IF calls_made < MaxCallsMade
            THEN /\ \E arg \in Ticks :
                       stack' = [stack EXCEPT ![t] =
                          Append([st EXCEPT ![Len(st)] = next],
                                 Frame(does, arg))]
                 /\ calls_made' = calls_made + 1
                 /\ UNCHANGED <<errors_printed, escaped>>
            ELSE Goto(t, next)
                 /\ UNCHANGED <<errors_printed, escaped, calls_made>>
    /\ UNCHANGED <<clock, monitor_lock, scanner_lock, last_tick,
                   last_alert_time, update_count, alert_callbacks, eval_log>>

Thread(t) ==
    \/ Call(t)
    \/ AcquireMonitor(t) \/ UpdateMarketData(t)
    \/ AcquireScanner(t) \/ CountUpdate(t)
    \/ GetMarketData(t) \/ CheckConditions(t) \/ SetLastAlertTime(t)
    \/ Callback(t)

\* One thread calls the scanner.
SequentialNext == OnAlert \/ ClockTick \/ Thread(1)
SpecSequential == Init /\ [][SequentialNext]_allVars

\* Several threads call the scanner, all within the same second.
ThreadsNext == OnAlert \/ \E t \in Threads : Thread(t)
SpecThreads == Init /\ [][ThreadsNext]_allVars

\* C15: with one thread, a check_conditions that has data reports triggered
\* exactly when all conditions pass and no signal was emitted before or the
\* last one was emitted more than alert_cooldown_seconds ago; a check that
\* is not triggered leaves the time of the last signal alone.
C15_CooldownSignals ==
    \A i \in 1..Len(eval_log) :
       eval_log[i].triggered <=>
          /\ eval_log[i].passed
          /\ \A j \in 1..(i - 1) :
                eval_log[j].triggered =>
                   eval_log[i].time - eval_log[j].time > alert_cooldown_seconds

\* Three checks that pass: the first gives a signal, the second, a second
\* later, gives none, and the third, six seconds after the first, gives one.
C15_Witness ==
    /\ Len(eval_log) = 3
    /\ \A i \in 1..3 : eval_log[i].passed
    /\ eval_log[1].triggered
    /\ ~eval_log[2].triggered /\ eval_log[2].time = eval_log[1].time + 1
    /\ eval_log[3].triggered /\ eval_log[3].time = eval_log[1].time + 6

\* C16: the snapshot that an update evaluates holds the price, volume and
\* vwap of that same update.
C16_EvaluatesOwnUpdate ==
    \A t \in Threads :
       \A i \in 1..Len(stack[t]) :
          (stack[t][i].kind = "update"
             /\ stack[t][i].pc \in {"evaluate", "stamp", "alert"}) =>
                stack[t][i].data = stack[t][i].arg

\* An update leaves _trigger_alert.
LeavesAlert(t) ==
    /\ At(t, "alert")
    /\ Len(stack'[t]) < Len(stack[t])

\* C18: an exception (an Exception) that an alert callback raises does not
\* leave update: the callbacks registered after it are called as well
\* before update returns, and the thread can call again.
C18_CallbackExceptionCaught ==
    /\ [](~escaped)
    /\ [][\A t \in Threads :
             LeavesAlert(t) =>
                /\ Top(t).cb = Len(alert_callbacks) + 1
                /\ stack'[t] = SubSeq(stack[t], 1, Len(stack[t]) - 1)]_allVars

\* The first of two callbacks raised, the second was called, update
\* returned, and a later update was evaluated.
C18_Witness ==
    /\ alert_callbacks = <<"raises", "returns">>
    /\ errors_printed = 1
    /\ stack[1] = <<>>
    /\ update_count = 2
    /\ Len(eval_log) = 2

\* The thread waits for a lock.
WaitsFor(t) ==
    IF At(t, "md_lock") \/ At(t, "get_lock") THEN monitor_lock
    ELSE IF At(t, "count_lock") THEN scanner_lock
    ELSE 0

\* C19: a thread holds the monitor's lock only inside update_market_data
\* and get_market_data, and the scanner's lock only around the count: none
\* when _trigger_alert calls a callback.  So a thread never waits for a lock it holds
\* itself, and a thread that waits for a lock waits for a thread that can
\* go on.
C19_CallbacksOutsideLocks ==
    \A t \in Threads :
       /\ monitor_lock = t => (At(t, "md") \/ At(t, "get"))
       /\ scanner_lock = t => At(t, "count")
       /\ At(t, "alert") => (monitor_lock # t /\ scanner_lock # t)
       /\ WaitsFor(t) # t
       /\ WaitsFor(t) # 0 => WaitsFor(WaitsFor(t)) = 0

\* A callback of thread 1 has called update, which holds the monitor's lock
\* in update_market_data, while thread 2 waits for that lock.
C19_Witness ==
    /\ Len(stack[1]) = 2
    /\ stack[1][1].pc = "alert"
    /\ stack[1][2].kind = "update" /\ stack[1][2].pc = "md"
    /\ monitor_lock = 1
    /\ WaitsFor(2) = 1

\* ======================================================================
\* BacktestEngine.run_backtest of Self/RossCameron-Backtest.py: the loop
\* over the 10-second bars.  What check_exit_conditions and
\* check_entry_conditions find on a bar comes from the strategy module and
\* is an input; prices and capital are left out.
\* ======================================================================

\* Bars of the run, after the lookback.
MaxBars == 4
\* exit_reason of check_exit_conditions.
ExitReasons == {"STOP LOSS", "PROFIT TARGET", "DYNAMIC EXIT", "END OF DAY"}

\* (An exit that records no trade.)
exit_unrecorded(at, exit_reason) == trades
\* exit_position: the trade is recorded and the position is None.
exit_position(at, exit_reason) ==
    Append(trades, [entry_bar |-> bt_position, exit_bar |-> at,
                    exit_reason |-> exit_reason])

\* One turn of the for loop: a bar outside 9:30-15:30 is skipped; otherwise
\* the exit conditions when there is a position, then the entry conditions
\* when there is none.
RunBar ==
    /\ UNCHANGED outsideBack
    /\ ~finished /\ bar < MaxBars
    /\ bar' = bar + 1
    /\ \E in_hours, should_exit, should_enter \in BOOLEAN :
       \E exit_reason \in ExitReasons :
          IF ~in_hours
          THEN /\ checks' = <<>>
               /\ UNCHANGED <<bt_position, trades>>
          ELSE LET exits == bt_position # 0 /\ should_exit
                   after_exit == IF exits THEN 0 ELSE bt_position
               IN
               /\ trades' = IF exits
                            THEN exit_position(bar', exit_reason)
                            ELSE trades
               /\ bt_position' =
                     IF after_exit = 0 /\ should_enter THEN bar'
                     ELSE after_exit
               /\ checks' =
                     (IF bt_position # 0 THEN <<"exit">> ELSE <<>>)
                     \o (IF after_exit = 0 THEN <<"entry">> ELSE <<>>)
    /\ UNCHANGED finished

\* After the loop: a position that is left is closed at the last bar.
CloseRemaining ==
    /\ UNCHANGED outsideBack
    /\ ~finished /\ bar = MaxBars
    /\ finished' = TRUE
    /\ IF bt_position # 0
       THEN /\ trades' = exit_position(bar, "END OF BACKTEST")
            /\ bt_position' = 0
       ELSE UNCHANGED <<bt_position, trades>>
    /\ UNCHANGED <<bar, checks>>

BacktestNext == RunBar \/ CloseRemaining
SpecBacktest == Init /\ [][BacktestNext]_allVars

\* The bars on which the loop has closed a position.
ExitBars ==
    {trades[k].exit_bar : k \in {j \in 1..Len(trades) :
                                    trades[j].exit_reason \in ExitReasons}}

\* C20: on every bar the exit conditions are evaluated before the entry
\* conditions, and no position is entered on a bar on which the loop has
\* closed one.
C20_ExitBeforeEntryNoReentry ==
    /\ checks \in {<<>>, <<"exit">>, <<"entry">>, <<"exit", "entry">>}
    /\ bt_position \notin ExitBars
    /\ \A k \in 1..Len(trades) : trades[k].entry_bar \notin ExitBars

\* ------------------------------------------------- the replay's exit check
\* lookback_bars = 360 of run_backtest
lookback_bars == 360
\* Lows of the 10-second bars of the replayed day.
ReplayLows == {8, 9}
\* The records of df_10s: lookback_bars bars before the first bar the loop
\* processes, then the bars of `tail`.
Records(tail) ==
    [k \in 1..(lookback_bars + Len(tail)) |->
        IF k <= lookback_bars THEN 9 ELSE tail[k - lookback_bars]]
\* The bar at index i of a list (indices from 0, as in the program).
BarAt(list, i) == list[i + 1]

\* bars_10s[self.position['entry_bar_idx']:]
bars_since_entry(bars_10s, entry_bar_idx) ==
    SubSeq(bars_10s, entry_bar_idx + 1, Len(bars_10s))
\* check_exit_conditions, its exit_reason ("" when should_exit is False):
\* stop loss, profit target, the dynamic exit on the bars since the entry
\* (the rule of check_dynamic_exit, on lows), the end of the day.
check_exit_conditions(bars_10s, entry_bar_idx, stop_hit, target_hit, eod) ==
    IF stop_hit THEN "STOP LOSS"
    ELSE IF target_hit THEN "PROFIT TARGET"
    ELSE IF /\ Len(bars_since_entry(bars_10s, entry_bar_idx)) >= 2
            /\ check_dynamic_exit(bars_since_entry(bars_10s, entry_bar_idx))
         THEN "DYNAMIC EXIT"
    ELSE IF eod THEN "END OF DAY"
    ELSE ""

\* run_backtest before the loop: bars_10s_list = df_10s.to_dict('records').
LoadBars ==
    /\ UNCHANGED <<vars, feedOwn, condOwn, scanOwn, ledgerOwn, callOwn>>
    /\ bars_10s_list = <<>>
    /\ \E tail \in [1..MaxBars -> ReplayLows] :
          bars_10s_list' = Records(tail)
    /\ UNCHANGED <<backOwn, price_history, volume_history>>
\* One turn of the for loop at index i, with the bars the checks read:
\* recent_10s = bars_10s_list[i-lookback_bars:i+1], check_exit_conditions on
\* it when there is a position, then the entry check; enter_position keeps
\* i as entry_bar_idx.
ReplayBar ==
    /\ UNCHANGED <<vars, feedOwn, condOwn, scanOwn, ledgerOwn, callOwn>>
    /\ bars_10s_list # <<>> /\ ~finished /\ bar < MaxBars
    /\ bar' = bar + 1
    /\ LET i == lookback_bars + bar
           recent_10s == SubSeq(bars_10s_list, i - lookback_bars + 1, i + 1)
       IN
       \E in_hours, stop_hit, target_hit, eod, should_enter \in BOOLEAN :
          IF ~in_hours
          THEN /\ checks' = <<>>
               /\ UNCHANGED <<bt_position, trades>>
          ELSE LET exit_reason ==
                      IF bt_position = 0 THEN ""
                      ELSE check_exit_conditions(recent_10s, bt_position,
                                                 stop_hit, target_hit, eod)
                   after_exit == IF exit_reason # "" THEN 0 ELSE bt_position
               IN
               /\ trades' = IF exit_reason # ""
                            THEN exit_position(i, exit_reason)
                            ELSE trades
               /\ bt_position' =
                     IF after_exit = 0 /\ should_enter THEN i
                     ELSE after_exit
               /\ checks' =
                     IF bt_position = 0 THEN <<>>
                     ELSE <<[i |-> i, entry_bar_idx |-> bt_position,
                             stop_hit |-> stop_hit, target_hit |-> target_hit,
                             exit_reason |-> exit_reason]>>
    /\ UNCHANGED <<finished, bars_10s_list, price_history, volume_history>>

ReplayNext == LoadBars \/ ReplayBar \/ CloseRemaining
SpecReplay == Init /\ [][ReplayNext]_allVars

\* The exit check of the last bar found a candle under a candle since the
\* entry, and neither the stop nor the target hit.
CandleUnderCandle ==
    /\ checks # <<>>
    /\ checks[1].i - 1 >= checks[1].entry_bar_idx
    /\ ~checks[1].stop_hit /\ ~checks[1].target_hit
    /\ BarAt(bars_10s_list, checks[1].i)
          < BarAt(bars_10s_list, checks[1].i - 1)

\* C21: in the replay, while a position is open, a processed bar after the
\* entry bar whose low is below the low of the bar before it (both at or
\* after the entry bar), with neither stop nor target hit, makes
\* check_exit_conditions return DYNAMIC EXIT, as the live loop does.
C21_ReplayDynamicExit ==
    CandleUnderCandle => checks[1].exit_reason = "DYNAMIC EXIT"

\* ------------------------------------------------------ the position sizer
\* app.account_balance as it reaches the sizer: <<>> for None, or <<cents>>.
Balances == {<<>>, <<-100>>, <<0>>, <<10000>>, <<100000>>, <<1000000>>}
\* entry_price and stop_price, in cents.
EntryPrices == {0, 500, 1000, 30000}
StopPrices == {450, 900, 1000, 1100, 29000}
\* What a call gives back: the value it returns, or the exception it raises.
Returns(value) == [raised |-> FALSE, value |-> value]
Raises == [raised |-> TRUE, value |-> 0]

\* A call of calculate_position_size: 0 without a balance; the division
\* simulated_trade_size / entry_price raises ZeroDivisionError at 0.
size_position(balance, entry, stop) ==
    IF balance = <<>> THEN Returns(0)
    ELSE IF balance[1] > 0 /\ entry = 0 THEN Raises
    ELSE Returns(calculate_position_size(balance[1], entry, stop))

\* qty = calculate_position_size(account_balance, entry_price, stop_price)
SizePosition ==
    /\ UNCHANGED <<vars, feedOwn, condOwn, scanOwn, backOwn, ledgerOwn, dataOwn>>
    /\ \E balance \in Balances, entry \in EntryPrices, stop \in StopPrices :
          /\ args' = <<[account_balance |-> balance, entry_price |-> entry,
                        stop_price |-> stop]>>
          /\ ret' = size_position(balance, entry, stop)

SpecSizer == Init /\ [][SizePosition]_allVars

\* The sizer was called with a positive balance, a positive entry price and
\* a stop price that differs from it.
ValidSizing ==
    /\ args # <<>>
    /\ args[1].account_balance # <<>>
    /\ args[1].account_balance[1] > 0
    /\ args[1].entry_price > 0
    /\ args[1].entry_price # args[1].stop_price
\* |entry - stop| of the call.
StopDistance ==
    IF args[1].entry_price > args[1].stop_price
    THEN args[1].entry_price - args[1].stop_price
    ELSE args[1].stop_price - args[1].entry_price
\* floor(balance * 0.10 / |entry - stop|), at least 1.
RiskShares ==
    Max((args[1].account_balance[1] * 10) \div (100 * StopDistance), 1)

\* C25: the sizer returns the shares that risk 10% of the balance over the
\* stop distance, floor(balance * 0.10 / |entry - stop|), capped by the
\* maximum allocation: never more than the risk allows, so that the result
\* depends on the balance and on the stop distance.
C25_SizedByRisk ==
    ValidSizing => ~ret.raised /\ ret.value <= RiskShares

\* C26: the sizer returns 0 exactly when the input is invalid (no balance or
\* a balance <= 0, or an entry price equal to the stop price), at least 1 for
\* every valid input, and never raises.
C26_ZeroIffInvalid ==
    args # <<>> =>
       /\ ~ret.raised
       /\ ret.value = 0 <=>
             \/ args[1].account_balance = <<>>
             \/ args[1].account_balance[1] <= 0
             \/ args[1].entry_price = args[1].stop_price
       /\ ValidSizing => ret.value >= 1

\* ------------------------------------------------- the pullback detector
\* len(bars) < 30
pattern_min_bars == 30
\* bars[-60:]
pattern_window == 60
\* A 10-second bar.
Bar(high, low, open, close) ==
    [high |-> high, low |-> low, open |-> open, close |-> close]
\* The bars a series ends with: the surge's high, a dip, a green bar above
\* the surge's high, a green bar below it, a red bar, a bar that stays at the
\* surge's high.
TailBars == {Bar(100, 98, 98, 99), Bar(95, 90, 95, 91), Bar(101, 94, 95, 100),
             Bar(97, 92, 93, 96), Bar(97, 96, 97, 96),
             Bar(100, 100, 100, 100)}
\* The first bar of a series: a quiet bar, or a high no later bar reaches.
HeadBars == {Bar(95, 93, 94, 94), Bar(200, 93, 94, 94)}
\* len(bars): too few, just enough, more than the window.
SeriesLengths == {29, 30, 61}
\* A series of n bars: head, quiet bars, then the bars of tail.
Series(n, head, tail) ==
    [k \in 1..n |->
        IF k > n - Len(tail) THEN tail[k - (n - Len(tail))]
        ELSE IF k = 1 THEN head
        ELSE Bar(95, 93, 94, 94)]

\* max(highs)
MaxHigh(recent) ==
    CHOOSE m \in {recent[k].high : k \in 1..Len(recent)} :
       \A k \in 1..Len(recent) : recent[k].high <= m
\* len(recent) - 1 - highs[::-1].index(max_high): the index (from 0) of the
\* last bar at the maximum.
max_high_idx(recent) ==
    CHOOSE i \in 0..(Len(recent) - 1) :
       /\ recent[i + 1].high = MaxHigh(recent)
       /\ \A j \in (i + 1)..(Len(recent) - 1) :
             recent[j + 1].high # MaxHigh(recent)
\* max_high_idx >= len(recent) - 2
still_at_high(peak, n) == peak >= n - 2
RECURSIVE pullback_scan(_, _, _)
\* The for loop over range(max_high_idx + 1, len(recent)), from index i on:
\* pullback_low, as <<low>> once a bar has gone below it.
pullback_scan(recent, i, low) ==
    IF i > Len(recent) - 1 THEN low
    ELSE IF recent[i + 1].low < low[1]
         THEN pullback_scan(recent, i + 1, <<recent[i + 1].low, TRUE>>)
         ELSE pullback_scan(recent, i + 1, low)
\* (A new high that need not close above its open.)
makes_new_high_any_close(last_bar, second_last_bar) ==
    last_bar.high > second_last_bar.high
\* last_bar['high'] > second_last_bar['high'] and
\* last_bar['close'] > last_bar['open']
makes_new_high(last_bar, second_last_bar) ==
    /\ last_bar.high > second_last_bar.high
    /\ last_bar.close > last_bar.open
\* What detect_pullback_and_new_high returns; pullback_low is <<>> for None.
Detected(success, message, low) ==
    [success |-> success, message |-> message, pullback_low |-> low]
detect_pullback_and_new_high(bars_in) ==
    IF Len(bars_in) < pattern_min_bars
    THEN Detected(FALSE, "Not enough bars", <<>>)
    ELSE
    LET recent == IF Len(bars_in) >= pattern_window
                  THEN SubSeq(bars_in, Len(bars_in) - pattern_window + 1,
                              Len(bars_in))
                  ELSE bars_in
        n == Len(recent)
        max_high == MaxHigh(recent)
        peak == max_high_idx(recent)
        scan == pullback_scan(recent, peak + 1, <<max_high, FALSE>>)
        last_bar == recent[n]
        second_last_bar == recent[n - 1]
    IN
    IF still_at_high(peak, n)
    THEN Detected(FALSE, "No pullback detected yet (still at high)", <<>>)
    ELSE IF ~scan[2]
    THEN Detected(FALSE, "No pullback after surge", <<>>)
    ELSE IF makes_new_high(last_bar, second_last_bar)
    THEN Detected(TRUE, "Pullback + First New High detected", <<scan[1]>>)
    ELSE Detected(FALSE, "Waiting for first candle making new high", <<>>)

\* pullback_detected, msg, pullback_low = detect_pullback_and_new_high(bars),
\* once on a series.
DetectPattern ==
    /\ UNCHANGED <<vars, feedOwn, condOwn, scanOwn, backOwn, ledgerOwn, dataOwn>>
    /\ args = <<>>
    /\ \E n \in SeriesLengths, head \in HeadBars,
          tail \in [1..4 -> TailBars] :
          /\ args' = <<Series(n, head, tail)>>
          /\ ret' = detect_pullback_and_new_high(Series(n, head, tail))

SpecPattern == Init /\ [][DetectPattern]_allVars

\* The series of the call rises to a high of 100, dips to a low of 90 and
\* ends with a candle of high 101 that closes above its open.
SurgeDipBreakout ==
    /\ args # <<>>
    /\ Len(args[1]) >= pattern_min_bars
    /\ LET b == args[1]
           n == Len(b)
       IN
       /\ b[n].high = 101 /\ b[n].close > b[n].open
       /\ \A j \in 1..(n - 1) : b[j].high <= 100
       /\ \E k \in 1..(n - 2) :
             /\ b[k].high = 100
             /\ \E j \in (k + 1)..(n - 1) : b[j].low = 90
             /\ \A j \in (k + 1)..n : b[j].low >= 90

\* C27: given a series that rises to a high of 100, dips to a low of 90 and
\* ends with a final candle with high 101 that closes above its open, the
\* detector succeeds and returns 90 as the pullback low.
C27_BreakoutDetected ==
    SurgeDipBreakout => ret.success /\ ret.pullback_low = <<90>>

\* C28: the detector succeeds if and only if, over the last (at most 60)
\* bars of a series of at least 30 bars, the maximum high lies before the
\* last two bars, some bar after it has a low below that maximum, the last
\* bar's high exceeds the previous bar's high and the last bar closes above
\* its open; on success the stop anchor is the minimum low among the bars
\* after the peak; a peak at one of the last two bars always fails.
C28_DetectorCharacterised ==
    args # <<>> =>
       LET b == args[1]
           first == IF Len(b) > pattern_window
                    THEN Len(b) - pattern_window + 1 ELSE 1
           last == Len(b)
           window == first..last
           peaks == {k \in window :
                        \A j \in window : b[j].high <= b[k].high}
           peak == CHOOSE k \in peaks : \A j \in peaks : j <= k
           after == {k \in window : k > peak}
           lows == {b[k].low : k \in after}
       IN
       /\ ret.success <=>
             /\ Len(b) >= pattern_min_bars
             /\ peak < last - 1
             /\ \E k \in after : b[k].low < b[peak].high
             /\ b[last].high > b[last - 1].high
             /\ b[last].close > b[last].open
       /\ ret.success =>
             /\ ret.pullback_low # <<>>
             /\ ret.pullback_low[1] \in lows
             /\ \A low \in lows : ret.pullback_low[1] <= low
       /\ peak >= last - 1 => ~ret.success
\* A series longer than the window on which the detector succeeds with a
\* peak that is not its first bar.
C28_Witness ==
    /\ args # <<>>
    /\ Len(args[1]) > pattern_window
    /\ ret.success
    /\ ret.pullback_low = <<90>>

\* ------------------------------------------------- the surge conditions
\* PRICE_SURGE_THRESHOLD = 3.0 (percent)
PRICE_SURGE_THRESHOLD == 3
\* VOLUME_SURGE_THRESHOLD = 5.0 (times)
VOLUME_SURGE_THRESHOLD == 5
\* self.lookback_seconds = 10
lookback_seconds == 10
\* The time of the data a condition is checked on, and the times its history
\* may have an entry at: two before the lookback window, two inside.
HistoryTimes == <<0, 5, 12, 20>>
SurgeTime == HistoryTimes[Len(HistoryTimes)]
\* A history value (a price in cents, or a volume); -1: no entry at the time.
HistoryValues == {-1, 0, 100, 103, 500}
\* A dict timestamp -> value, as the entries <<timestamp, value>> in the
\* order of insertion; <<>> is the empty dict, and None.
RECURSIVE HistoryOf(_, _)
HistoryOf(values, k) ==
    IF k = 0 THEN <<>>
    ELSE IF values[k] = -1 THEN HistoryOf(values, k - 1)
    ELSE Append(HistoryOf(values, k - 1), <<HistoryTimes[k], values[k]>>)
MarketData(price, volume, vwap, timestamp, prices, volumes) ==
    [price |-> price, volume |-> volume, vwap |-> vwap,
     timestamp |-> timestamp, price_history |-> prices,
     volume_history |-> volumes]

\* {ts: v for ts, v in history.items() if ts >= cutoff_time}, cutoff_time =
\* data.timestamp - timedelta(seconds=self.lookback_seconds)
recent_entries(history, timestamp) ==
    LET inside(e) == e[1] >= timestamp - lookback_seconds
    IN SelectSeq(history, inside)
\* min(recent.values())
MinValue(entries) ==
    CHOOSE m \in {entries[k][2] : k \in 1..Len(entries)} :
       \A k \in 1..Len(entries) : m <= entries[k][2]
RECURSIVE SumValues(_, _)
\* sum of the values of the first k entries
SumValues(entries, k) ==
    IF k = 0 THEN 0 ELSE SumValues(entries, k - 1) + entries[k][2]

\* What check leaves: the value it returns and self.triggered_reason, or
\* the exception of a division by zero.
NotTriggered == [raised |-> FALSE, triggered |-> FALSE, reason |-> ""]
TriggeredFor(reason) ==
    [raised |-> FALSE, triggered |-> TRUE, reason |-> reason]
ZeroDivision == [raised |-> TRUE, triggered |-> FALSE, reason |-> ""]

\* (A check that goes on to the division.)
goes_on(denominator) == FALSE
\* if min_price == 0, if avg_volume == 0: the check returns.
returns_at_zero(denominator) == denominator = 0

\* PriceSurgeCondition.check: ((price - min_price) / min_price) * 100 >=
\* surge_threshold, min_price over the lookback window.
price_surge_check(data, surge_threshold) ==
    LET recent_prices == recent_entries(data.price_history, data.timestamp)
        min_price == MinValue(recent_prices)
    IN
    IF Len(data.price_history) < 2 THEN NotTriggered
    ELSE IF Len(recent_prices) < 2 THEN NotTriggered
    ELSE IF returns_at_zero(min_price) THEN NotTriggered
    ELSE IF min_price = 0 THEN ZeroDivision
    ELSE IF \/ /\ min_price > 0
               /\ (data.price - min_price) * 100 >= surge_threshold * min_price
            \/ /\ min_price < 0
               /\ (data.price - min_price) * 100 <= surge_threshold * min_price
         THEN TriggeredFor("Price surged in last 10s")
    ELSE NotTriggered

\* (An average over the entries of the lookback window only.)
reference_in_window(history, timestamp) == recent_entries(history, timestamp)
\* all_volumes = list(data.volume_history.values()): the entries the average
\* is taken over.
reference_entries(history, timestamp) == history

\* VolumeSurgeCondition.check: volume / avg_volume >= surge_threshold;
\* avg_volume is sum(all_volumes[:-1]) / (len(all_volumes) - 1) from three
\* entries on, and the minimum of the lookback window below.
volume_surge_check(data, surge_threshold) ==
    LET recent_volumes == recent_entries(data.volume_history, data.timestamp)
        all_volumes == reference_entries(data.volume_history, data.timestamp)
        before == Len(all_volumes) - 1
        total == SumValues(all_volumes, before)
    IN
    IF Len(data.volume_history) < 2 THEN NotTriggered
    ELSE IF Len(recent_volumes) < 2 THEN NotTriggered
    ELSE IF Len(all_volumes) >= 3
    THEN IF returns_at_zero(total) THEN NotTriggered
         ELSE IF total > 0 /\ data.volume * before >= surge_threshold * total
              THEN TriggeredFor("Volume surged in last 10s")
         ELSE NotTriggered
    ELSE IF returns_at_zero(MinValue(recent_volumes)) THEN NotTriggered
         ELSE IF /\ MinValue(recent_volumes) > 0
                 /\ data.volume >= surge_threshold * MinValue(recent_volumes)
              THEN TriggeredFor("Volume surged in last 10s")
         ELSE NotTriggered

\* PriceSurgeCondition().check(data), once.
CheckPriceSurge ==
    /\ UNCHANGED <<vars, feedOwn, condOwn, scanOwn, backOwn, ledgerOwn, dataOwn>>
    /\ args = <<>>
    /\ \E price \in HistoryValues \ {-1},
          values \in [1..Len(HistoryTimes) -> HistoryValues] :
          LET data == MarketData(price, 100, 100, SurgeTime,
                                 HistoryOf(values, Len(HistoryTimes)), <<>>)
          IN /\ args' = <<"price", data>>
             /\ ret' = price_surge_check(data, PRICE_SURGE_THRESHOLD)
\* VolumeSurgeCondition().check(data), once.
CheckVolumeSurge ==
    /\ UNCHANGED <<vars, feedOwn, condOwn, scanOwn, backOwn, ledgerOwn, dataOwn>>
    /\ args = <<>>
    /\ \E volume \in HistoryValues \ {-1},
          values \in [1..Len(HistoryTimes) -> HistoryValues] :
          LET data == MarketData(100, volume, 100, SurgeTime, <<>>,
                                 HistoryOf(values, Len(HistoryTimes)))
          IN /\ args' = <<"volume", data>>
             /\ ret' = volume_surge_check(data, VOLUME_SURGE_THRESHOLD)

SurgeNext == CheckPriceSurge \/ CheckVolumeSurge
SpecSurge == Init /\ [][SurgeNext]_allVars

\* The data of the call, with only the entries of its volume history that
\* lie inside the lookback window.
WindowOnly ==
    [args[2] EXCEPT !.volume_history =
        recent_entries(args[2].volume_history, args[2].timestamp)]
\* The entries of the volume history of the call inside the lookback window.
VolumesInside ==
    {k \in 1..Len(args[2].volume_history) :
        args[2].volume_history[k][1] >= args[2].timestamp - lookback_seconds}

\* C29: the result of the volume-surge condition depends only on the current
\* volume and on the history entries inside the lookback window: the history
\* cut down to the window gives the same result; with fewer than 2 entries
\* inside the window the condition is not triggered.
C29_OnlyWindowMatters ==
    (args # <<>> /\ args[1] = "volume") =>
       /\ ret = volume_surge_check(WindowOnly, VOLUME_SURGE_THRESHOLD)
       /\ Cardinality(VolumesInside) < 2 => ~ret.triggered

\* C29, amended: the condition is triggered exactly when at least 2 entries
\* lie inside the lookback window and the current volume is at least
\* the threshold times the reference volume, which is, from 3 history entries
\* on, the average of all entries but the last, inside the window or not,
\* and below 3 entries the minimum of the window; a reference of 0 or less,
\* or fewer than 2 entries inside the window, give not triggered.
C29_WholeHistoryAverage ==
    (args # <<>> /\ args[1] = "volume") =>
       LET h == args[2].volume_history
           volume == args[2].volume
           total == SumValues(h, Len(h) - 1)
           least == CHOOSE m \in {h[k][2] : k \in VolumesInside} :
                       \A k \in VolumesInside : m <= h[k][2]
       IN
       /\ ~ret.raised
       /\ ret.triggered <=>
             /\ Cardinality(VolumesInside) >= 2
             /\ IF Len(h) >= 3
                THEN /\ total > 0
                     /\ volume * (Len(h) - 1) >= VOLUME_SURGE_THRESHOLD * total
                ELSE /\ least > 0
                     /\ volume >= VOLUME_SURGE_THRESHOLD * least
       /\ Cardinality(VolumesInside) < 2 => ret = NotTriggered
\* The entries before the window decide: the condition is triggered, and
\* would not be on the entries of the window alone.
C29_Witness ==
    /\ args # <<>> /\ args[1] = "volume"
    /\ ret.triggered
    /\ ~volume_surge_check(WindowOnly, VOLUME_SURGE_THRESHOLD).triggered

\* C30: the two surge checks never raise on a zero denominator: with a
\* window minimum price of 0, or a reference average volume of 0, they
\* return false with an empty reason, and so they do with a missing, an
\* empty or a single-entry history.
C30_NoZeroDivision ==
    args # <<>> =>
       LET h == IF args[1] = "price" THEN args[2].price_history
                ELSE args[2].volume_history
           inside == recent_entries(h, args[2].timestamp)
       IN
       /\ ~ret.raised
       /\ Len(h) < 2 => ret = NotTriggered
       /\ (Len(inside) >= 2 /\ args[1] = "price" /\ MinValue(inside) = 0)
             => ret = NotTriggered
       /\ (Len(inside) >= 2 /\ args[1] = "volume" /\ Len(h) >= 3
             /\ SumValues(h, Len(h) - 1) = 0) => ret = NotTriggered
       /\ (Len(inside) >= 2 /\ args[1] = "volume" /\ Len(h) < 3
             /\ MinValue(inside) = 0) => ret = NotTriggered
\* A price check on a window of two entries whose minimum is 0.
C30_Witness ==
    /\ args # <<>> /\ args[1] = "price"
    /\ Len(recent_entries(args[2].price_history, args[2].timestamp)) >= 2
    /\ MinValue(recent_entries(args[2].price_history, args[2].timestamp)) = 0
    /\ ret = NotTriggered

\* ------------------------------------------- the monitor and its replay
\* The updates a monitor is given.
MaxUpdates == 4
\* max_history_size of RealtimeSymbolMonitor (1000 by default)
max_history_size == 3
\* price, volume, vwap of a point: a quiet one, a surge, a stronger surge.
Points == {[price |-> 100, volume |-> 10, vwap |-> 100],
           [price |-> 103, volume |-> 50, vwap |-> 100],
           [price |-> 103, volume |-> 150, vwap |-> 100]}
\* A point with its timestamp.
Stamped(timestamp, point) ==
    [timestamp |-> timestamp, price |-> point.price,
     volume |-> point.volume, vwap |-> point.vwap]

\* (A deque without maxlen.)
append_unbounded(history, entry) == Append(history, entry)
\* deque(maxlen=max_history_size).append
deque_append(history, entry) ==
    IF Len(history) >= max_history_size
    THEN Append(Tail(history), entry)
    ELSE Append(history, entry)
\* d[ts] = value on a dict in insertion order: a new key goes last, a key
\* that is there keeps its place.
DictPut(d, ts, value) ==
    IF \E k \in 1..Len(d) : d[k][1] = ts
    THEN [k \in 1..Len(d) |-> IF d[k][1] = ts THEN <<ts, value>> ELSE d[k]]
    ELSE Append(d, <<ts, value>>)
RECURSIVE DictOf(_, _)
\* {ts: value for ts, value in entries}, over the first k entries
DictOf(entries, k) ==
    IF k = 0 THEN <<>>
    ELSE DictPut(DictOf(entries, k - 1), entries[k][1], entries[k][2])
\* condition_set.check_all(data) of the default conditions: price above
\* VWAP, price surge, volume surge.
passes_all(data) ==
    /\ data.price > data.vwap
    /\ price_surge_check(data, PRICE_SURGE_THRESHOLD).triggered
    /\ volume_surge_check(data, VOLUME_SURGE_THRESHOLD).triggered

\* monitor.update_market_data(price, volume, vwap)
MonitorUpdate ==
    /\ UNCHANGED <<vars, feedOwn, condOwn, backOwn, ledgerOwn>>
    /\ Len(args) < MaxUpdates
    /\ \E point \in Points :
          /\ price_history' =
                deque_append(price_history, <<clock, point.price>>)
          /\ volume_history' =
                deque_append(volume_history, <<clock, point.volume>>)
          /\ last_tick' = point
          /\ args' = Append(args, Stamped(clock, point))
    /\ UNCHANGED <<clock, monitor_lock, scanner_lock, last_alert_time,
                   update_count, alert_callbacks, stack, eval_log,
                   errors_printed, escaped, calls_made, bars_10s_list, ret>>
\* update_market_data and then check_conditions, as in update of the
\* scanner: get_market_data turns the histories into dicts, check_all, and
\* the cooldown.
UpdateAndCheck ==
    /\ UNCHANGED <<vars, feedOwn, condOwn, backOwn, ledgerOwn>>
    /\ Len(args) < MaxUpdates
    /\ \E point \in Points :
          LET prices == deque_append(price_history, <<clock, point.price>>)
              volumes == deque_append(volume_history, <<clock, point.volume>>)
              data == MarketData(point.price, point.volume, point.vwap, clock,
                                 DictOf(prices, Len(prices)),
                                 DictOf(volumes, Len(volumes)))
              triggered == passes_all(data) /\ cooled_down
          IN
          /\ price_history' = prices
          /\ volume_history' = volumes
          /\ last_tick' = point
          /\ args' = Append(args, Stamped(clock, point))
          /\ last_alert_time' = IF triggered THEN clock ELSE last_alert_time
          /\ eval_log' = Append(eval_log,
                [time |-> clock, passed |-> passes_all(data),
                 triggered |-> triggered])
          /\ ret' = [triggered |-> triggered]
    /\ UNCHANGED <<clock, monitor_lock, scanner_lock, update_count,
                   alert_callbacks, stack, errors_printed, escaped,
                   calls_made, bars_10s_list>>

MonitorNext == ClockTick \/ MonitorUpdate \/ UpdateAndCheck
SpecMonitor == Init /\ [][MonitorNext]_allVars

\* The entries the histories would hold without a limit: the updates in
\* the order of arrival.
Arrived(field) == [k \in 1..Len(args) |-> <<args[k].timestamp, args[k][field]>>]
\* The last entries of a sequence, at most max_history_size of them.
MostRecent(entries) ==
    IF Len(entries) <= max_history_size THEN entries
    ELSE SubSeq(entries, Len(entries) - max_history_size + 1, Len(entries))

\* C24: after any sequence of update_market_data calls, price_history and
\* volume_history have the same length, min(number of updates,
\* max_history_size), and hold the most recent updates in arrival order.
C24_BoundedHistories ==
    /\ Len(price_history) = Len(volume_history)
    /\ Len(price_history) =
          IF Len(args) < max_history_size THEN Len(args) ELSE max_history_size
    /\ price_history = MostRecent(Arrived("price"))
    /\ volume_history = MostRecent(Arrived("volume"))
\* More updates than the histories hold.
C24_Witness ==
    /\ Len(args) > max_history_size
    /\ Len(price_history) = max_history_size
    /\ price_history[1] # <<args[1].timestamp, args[1].price>>

\* ---------------------------------------------------- the replay scanner
\* The timestamps of the candles of a fixture.
CandleTimes == {0, 1, 5}
\* (The candles in the order they were added.)
as_added(candles, k) == SubSeq(candles, 1, k)
RECURSIVE sorted_candles(_, _)
\* sorted(candles, key=lambda x: x['timestamp']) of the first k candles:
\* candles of the same timestamp stay in the order they were added.
sorted_candles(candles, k) ==
    IF k = 0 THEN <<>>
    ELSE LET before == sorted_candles(candles, k - 1)
             c == candles[k]
             keep == Cardinality({j \in 1..Len(before) :
                                     before[j].timestamp <= c.timestamp})
         IN SubSeq(before, 1, keep) \o <<c>>
               \o SubSeq(before, keep + 1, Len(before))
RECURSIVE history_of(_, _, _)
\* The first loop of run_backtest over the first k sorted candles:
\* price_history[timestamp] = candle['close'], and volume_history alike.
history_of(sorted, field, k) ==
    IF k = 0 THEN <<>>
    ELSE DictPut(history_of(sorted, field, k - 1),
                 sorted[k].timestamp, sorted[k][field])
\* {ts: v for ts, v in history.items() if ts <= cutoff_time}
up_to(history, cutoff_time) ==
    LET early(e) == e[1] <= cutoff_time IN SelectSeq(history, early)
\* run_backtest of BacktestAlertScanner for one symbol: the candles that
\* give an alert, in the order of the alerts.
run_backtest(candles) ==
    LET sorted == sorted_candles(candles, Len(candles))
        prices == history_of(sorted, "price", Len(sorted))
        volumes == history_of(sorted, "volume", Len(sorted))
        alerts(c) ==
            passes_all(MarketData(c.price, c.volume, c.vwap, c.timestamp,
                                  up_to(prices, c.timestamp),
                                  up_to(volumes, c.timestamp)))
    IN SelectSeq(sorted, alerts)

\* scanner.add_data for each candle of a fixture, then run_backtest, once.
RunBacktest ==
    /\ UNCHANGED <<vars, feedOwn, condOwn, scanOwn, backOwn, ledgerOwn, dataOwn>>
    /\ args = <<>>
    /\ \E fixture \in [1..3 -> {Stamped(t, point) :
                                   t \in CandleTimes, point \in Points}] :
          /\ args' = fixture
          /\ ret' = run_backtest(fixture)

SpecScan == Init /\ [][RunBacktest]_allVars

\* Every update of the monitor was followed by check_conditions, each at a
\* later time than the one before.
FedOneByOne ==
    /\ Len(eval_log) = Len(args)
    /\ \A k \in 1..(Len(args) - 1) : args[k].timestamp < args[k + 1].timestamp
    /\ Len(args) <= max_history_size

\* C23: on the same timestamped points, the replay scanner records an alert
\* at exactly the points at which the live monitor, fed the points one by one
\* with the clock at each point's timestamp, reports a triggered signal.
C23_ReplayMatchesLive ==
    FedOneByOne =>
       \A k \in 1..Len(args) :
          eval_log[k].triggered <=>
             \E a \in 1..Len(run_backtest(args)) :
                run_backtest(args)[a].timestamp = args[k].timestamp

\* The fixture of the call with its candles added in another order.
Reordered(order) == [k \in 1..Len(args) |-> args[order[k]]]
\* The orders in which the candles of the fixture can be added.
AddOrders ==
    {order \in [1..Len(args) -> 1..Len(args)] :
        \A i, j \in 1..Len(args) : i # j => order[i] # order[j]}
\* No two candles of the fixture have the same timestamp.
DistinctTimestamps ==
    \A i, j \in 1..Len(args) : i # j => args[i].timestamp # args[j].timestamp

VolumeBar(high, low, close, volume) ==
    [high |-> high, low |-> low, close |-> close, volume |-> volume]
\* The bars of a series: flat bars at 10 and at 20, a bar without volume,
\* bars with a range.
VwapBars == {VolumeBar(10, 10, 10, 1), VolumeBar(20, 20, 20, 1),
             VolumeBar(12, 9, 9, 0), VolumeBar(12, 9, 9, 2),
             VolumeBar(11, 10, 10, 0)}
RECURSIVE total_pv(_, _)
\* total_pv over the first k bars, times 3: typical_price * volume with
\* typical_price = (high + low + close) / 3
total_pv(bars_in, k) ==
    IF k = 0 THEN 0
    ELSE total_pv(bars_in, k - 1)
         + (bars_in[k].high + bars_in[k].low + bars_in[k].close)
              * bars_in[k].volume
RECURSIVE total_volume(_, _)
\* total_volume over the first k bars
total_volume(bars_in, k) ==
    IF k = 0 THEN 0 ELSE total_volume(bars_in, k - 1) + bars_in[k].volume
\* (A VWAP of a single bar.)
no_bars(n) == n < 1
\* len(bars) < 2
too_few_bars(n) == n < 2
\* calculate_vwap: <<>> for None, or total_pv / total_volume as the fraction
\* <<numerator, denominator>>.
calculate_vwap(bars_in) ==
    IF too_few_bars(Len(bars_in)) THEN <<>>
    ELSE IF total_volume(bars_in, Len(bars_in)) = 0 THEN <<>>
    ELSE <<total_pv(bars_in, Len(bars_in)),
           3 * total_volume(bars_in, Len(bars_in))>>

\* vwap = calculate_vwap(bars), once.
CalculateVwap ==
    /\ UNCHANGED <<vars, feedOwn, condOwn, scanOwn, backOwn, ledgerOwn, dataOwn>>
    /\ args = <<>>
    /\ \E n \in 0..3 : \E series \in [1..n -> VwapBars] :
          /\ args' = <<"vwap", series>>
          /\ ret' = calculate_vwap(series)

\* --- floating point: a float is m * 2^e, with m = 0 or a mantissa of
\* FloatBits bits; every operation rounds to the nearest, ties to even.
\* The bits of a mantissa (53 in a float64).
FloatBits == 11
Float(m, e) == [m |-> m, e |-> e]
Abs(x) == IF x < 0 THEN -x ELSE x
\* The number of bits of a > 0.
Width(a) == CHOOSE w \in 1..30 : 2^(w - 1) <= a /\ a < 2^w
\* m * 2^e as a float.
Round(m, e) ==
    IF m = 0 THEN Float(0, 0)
    ELSE LET a == Abs(m)
             sign == IF m < 0 THEN -1 ELSE 1
             w == Width(a)
             k == w - FloatBits
         IN
         IF k <= 0 THEN Float(m * 2^(-k), e + k)
         ELSE LET q == a \div 2^k
                  r == a % 2^k
                  half == 2^(k - 1)
                  up == r > half \/ (r = half /\ q % 2 = 1)
                  q2 == IF up THEN q + 1 ELSE q
              IN IF q2 = 2^FloatBits
                 THEN Float(sign * 2^(FloatBits - 1), e + k + 1)
                 ELSE Float(sign * q2, e + k)
\* x * y
FMul(x, y) == Round(x.m * y.m, x.e + y.e)
\* x + y
FAdd(x, y) ==
    IF x.m = 0 THEN y
    ELSE IF y.m = 0 THEN x
    ELSE LET hi == IF x.e >= y.e THEN x ELSE y
             lo == IF x.e >= y.e THEN y ELSE x
             d == hi.e - lo.e
         IN IF d > FloatBits + 1 THEN hi
            ELSE Round(hi.m * 2^d + lo.m, lo.e)
\* x - y
FSub(x, y) == FAdd(x, Float(-y.m, y.e))
\* a / b of two small integers (a < 4096, the quotient at least 1/128).
FDiv(a, b) ==
    Round(2 * ((a * 2^18) \div b)
             + (IF (a * 2^18) % b # 0 THEN 1 ELSE 0), -19)
\* x > y, x <= y
FGreater(x, y) == FSub(x, y).m > 0

RECURSIVE ema(_, _, _)
\* The loop of an exponential average over the first i values:
\* ema[0] = values[0], ema[i] = values[i] * alpha + ema[i-1] * (1 - alpha);
\* all its values.
ema(values, alpha, i) ==
    IF i = 1 THEN <<values[1]>>
    ELSE LET before == ema(values, alpha, i - 1)
         IN Append(before,
                   FAdd(FMul(values[i], alpha),
                        FMul(before[i - 1], FSub(FDiv(1, 1), alpha))))
\* (A MACD from a single close on.)
macd_from_one(n, slow) == n < 1
\* len(closes) < slow
insufficient_data(n, slow) == n < slow
\* calculate_macd(closes, fast=12, slow=26, signal=9): <<>> for the three
\* None, or macd_line[-1], signal_line[-1], histogram[-1].
calculate_macd(closes, fast, slow, signal) ==
    IF insufficient_data(Len(closes), slow) THEN <<>>
    ELSE LET n == Len(closes)
             ema_fast == ema(closes, FDiv(2, fast + 1), n)
             ema_slow == ema(closes, FDiv(2, slow + 1), n)
             macd_line == [i \in 1..n |-> FSub(ema_fast[i], ema_slow[i])]
             signal_line == ema(macd_line, FDiv(2, signal + 1), n)
         IN <<macd_line[n], signal_line[n],
              FSub(macd_line[n], signal_line[n])>>

\* fast=12, slow=26, signal=9 of calculate_macd
macd_fast == 12
macd_slow == 26
macd_signal == 9
\* len(bars) < 30 of check_macd_positive
macd_min_bars == 30
\* check_macd_positive, its first value: enough bars, MACD above its signal
\* line and a histogram above 0.
check_macd_positive(closes) ==
    LET macd == calculate_macd(closes, macd_fast, macd_slow, macd_signal)
    IN
    IF Len(closes) < macd_min_bars THEN FALSE
    ELSE IF macd = <<>> THEN FALSE
    ELSE IF ~FGreater(macd[1], macd[2]) THEN FALSE
    ELSE IF macd[3].m <= 0 THEN FALSE
    ELSE TRUE

\* len(closes): none, one, around slow and around the 30 bars of the check.
CloseCounts == {0, 1, 25, 26, 29, 30, 31}
\* The close of the bars of a series, in cents, and what the last bars are
\* above or below it.
CloseCents == {10, 21, 92, 100, 250, 1000}
CloseShifts == {-5, 0, 5}
\* The closes of n bars at `cents`, the last `k` of them shifted.
Closes(n, cents, k, shift) ==
    [i \in 1..n |-> IF i > n - k THEN FDiv(cents + shift, 100)
                    ELSE FDiv(cents, 100)]

\* macd_ok, macd_msg = check_macd_positive(bars) and the calculate_macd it
\* calls, once.
CheckMacd ==
    /\ UNCHANGED <<vars, feedOwn, condOwn, scanOwn, backOwn, ledgerOwn, dataOwn>>
    /\ args = <<>>
    /\ \E n \in CloseCounts, cents \in CloseCents, k \in {1, 3},
          shift \in CloseShifts :
          /\ args' = <<"macd", Closes(n, cents, k, shift)>>
          /\ ret' = [macd |-> calculate_macd(Closes(n, cents, k, shift),
                                             macd_fast, macd_slow,
                                             macd_signal),
                     positive |->
                        check_macd_positive(Closes(n, cents, k, shift))]

IndicatorsNext == CalculateVwap \/ CheckMacd
SpecIndicators == Init /\ [][IndicatorsNext]_allVars

\* C31: calculate_vwap returns no value for fewer than 2 bars or a total
\* volume of 0; otherwise sum(typical price * volume) / sum(volume) with the
\* typical price (high + low + close) / 3; two bars at 10 and 20 with
\* volume 1 each give 15.
C31_VwapValue ==
    (args # <<>> /\ args[1] = "vwap") =>
       LET b == args[2]
           weights == {<<k, j>> \in (1..Len(b)) \X (1..2) : j <= b[k].volume}
           volume == Cardinality(weights)
           pv3(k) == (b[k].high + b[k].low + b[k].close) * b[k].volume
       IN
       /\ ret = <<>> <=> (Len(b) < 2 \/ volume = 0)
       /\ ret # <<>> =>
             /\ ret[2] # 0
             /\ Len(b) = 2 => ret[1] * 3 * volume = (pv3(1) + pv3(2)) * ret[2]
             /\ Len(b) = 3 =>
                   ret[1] * 3 * volume = (pv3(1) + pv3(2) + pv3(3)) * ret[2]
       /\ b = <<VolumeBar(10, 10, 10, 1), VolumeBar(20, 20, 20, 1)>>
             => ret # <<>> /\ ret[1] = 15 * ret[2]
\* The two bars at 10 and 20.
C31_Witness ==
    /\ args = <<"vwap", <<VolumeBar(10, 10, 10, 1), VolumeBar(20, 20, 20, 1)>>>>
    /\ ret # <<>>

\* C32: calculate_macd returns no values for every series of closes shorter
\* than slow and three values for every series of at least slow closes;
\* check_macd_positive never passes on fewer than slow closes.
C32_MacdNeedsSlow ==
    (args # <<>> /\ args[1] = "macd") =>
       /\ Len(args[2]) < macd_slow => ret.macd = <<>> /\ ~ret.positive
       /\ Len(args[2]) >= macd_slow => Len(ret.macd) = 3
\* One close fewer than slow, and just slow closes.
C32_Witness ==
    /\ args # <<>> /\ args[1] = "macd"
    /\ Len(args[2]) = macd_slow - 1
    /\ ret.macd = <<>>

\* The closes of the call are all the same, and at least slow of them.
ConstantCloses ==
    /\ args # <<>> /\ args[1] = "macd"
    /\ Len(args[2]) >= macd_slow
    /\ \A i \in 1..Len(args[2]) : args[2][i] = args[2][1]

\* C33: for a constant series of at least slow closes, the MACD line, the
\* signal line and the histogram are all 0, and the MACD entry condition
\* does not pass.
C33_ConstantSeriesZero ==
    ConstantCloses =>
       /\ ret.macd[1].m = 0 /\ ret.macd[2].m = 0 /\ ret.macd[3].m = 0
       /\ ~ret.positive

\* ======================================================================
\* The status calls of Self/AlertScanner/realtime_scanner.py:
\* RealtimeSymbolMonitor.get_status_summary, get_relative_volume and
\* RealtimeAlertScanner.get_all_statuses, beside update, for one symbol.
\* ======================================================================

StatusKinds == {"update", "get_status_summary", "get_all_statuses",
                "get_relative_volume"}

\* A thread that is in no call calls update, get_status_summary,
\* get_all_statuses or get_relative_volume.
CallStatus(t) ==
    /\ UNCHANGED outsideScan
    /\ stack[t] = <<>>
    /\ calls_made < MaxCallsMade
    /\ \E kind \in StatusKinds, arg \in Ticks :
          stack' = [stack EXCEPT ![t] = <<Frame(kind, arg)>>]
    /\ calls_made' = calls_made + 1
    /\ UNCHANGED <<clock, monitor_lock, scanner_lock, last_tick,
                   last_alert_time, update_count, alert_callbacks, eval_log,
                   errors_printed, escaped>>

\* get_status_summary under the lock: the dict is built, and its entry
\* 'rel_volume' calls self.get_relative_volume().
StatusSummary(t) ==
    /\ UNCHANGED outsideScan
    /\ At(t, "summary")
    /\ stack' = [stack EXCEPT ![t] =
          Append([stack[t] EXCEPT ![Len(stack[t])].pc = "rel_volume"],
                 Frame("get_relative_volume", NoTick))]
    /\ UNCHANGED <<clock, monitor_lock, scanner_lock, last_tick,
                   last_alert_time, update_count, alert_callbacks, eval_log,
                   errors_printed, escaped, calls_made>>

\* get_relative_volume under the lock: the ratio is returned and the with
\* block releases the lock (a get_status_summary that waits for the ratio
\* returns its dict in turn).
RelativeVolume(t) ==
    /\ UNCHANGED outsideScan
    /\ At(t, "rel")
    /\ monitor_lock' = released_by(t)
    /\ IF Len(stack[t]) = 1
       THEN Return(t)
       ELSE stack' = [stack EXCEPT ![t] =
               SubSeq(stack[t], 1, Len(stack[t]) - 2)]
    /\ UNCHANGED <<clock, scanner_lock, last_tick, last_alert_time,
                   update_count, alert_callbacks, eval_log, errors_printed,
                   escaped, calls_made>>

StatusThread(t) ==
    \/ CallStatus(t)
    \/ AcquireMonitor(t) \/ UpdateMarketData(t)
    \/ AcquireScanner(t) \/ CountUpdate(t)
    \/ GetMarketData(t) \/ CheckConditions(t) \/ SetLastAlertTime(t)
    \/ Callback(t)
    \/ StatusSummary(t) \/ RelativeVolume(t)

\* Several threads call the scanner and the monitor; a thread that can
\* take a step is scheduled in the end.
StatusNext == \E t \in Threads : StatusThread(t)
SpecStatus ==
    /\ Init
    /\ [][StatusNext]_allVars
    /\ \A t \in Threads : WF_allVars(StatusThread(t))

\* The thread is in get_status_summary (called by get_all_statuses or not).
InStatusSummary(t) ==
    \E i \in 1..Len(stack[t]) :
       stack[t][i].kind \in {"get_status_summary", "get_all_statuses"}

\* C34: get_status_summary, and get_all_statuses which calls it, always
\* returns: no call waits forever for the monitor's own lock, whether or
\* not other threads update the symbol.
C34_StatusReturns ==
    \A t \in Threads : InStatusSummary(t) ~> (stack[t] = <<>>)

\* C35: with several threads in update for the same symbol, two signals
\* are never emitted within alert_cooldown_seconds of each other.
C35_OneSignalPerCooldown ==
    \A i, j \in 1..Len(eval_log) :
       (i < j /\ eval_log[i].triggered /\ eval_log[j].triggered) =>
          eval_log[j].time - eval_log[i].time > alert_cooldown_seconds

\* ======================================================================
\* The tracking dictionaries of the live trader (Self/RossCameron-Algo.py),
\* under Spec.
\* ======================================================================

Idle(s) == ~in_position[s] /\ ~pending_entry[s]

\* C37: while a symbol is Idle, no entry, profit or stop order id and no
\* stop or target price is recorded for it.
C37_IdleHoldsNothing ==
    \A s \in Symbols :
       Idle(s) =>
          /\ entry_order_id[s] = 0
          /\ profit_order_id[s] = 0
          /\ stop_order_id[s] = 0
          /\ stop_price[s] = 0
          /\ profit_target_price[s] = 0

\* ======================================================================
\* The trade plan of check_and_trade on asks and pullback lows from a
\* cent upwards, while the broker is silent: the main thread alone.
\* ======================================================================

\* Ask prices (cents).
PlanAsks == {3, 4, 5, 100, 9000}
\* Pullback lows (hundredths of a cent).
PlanLows == {249, 300, 349, 351, 8000, 850000, 901800, 910000}

PlanTrade ==
    /\ pc = "trade_wait"
    /\ PlaceOn(PlanAsks, PlanLows)

PlanNext ==
    \/ OutsideHours \/ NearCloseStep
    \/ CheckAndTradeStart \/ PlanTrade
    \/ TransitionStep \/ MonitorStart
    \/ Tick
SpecPlan == Init /\ [][PlanNext]_allVars

\* check_and_trade returns from its trade plan.
PlanReturns == pc = "trade_wait" /\ pc' # "trade_wait"

\* C38: every entry that check_and_trade submits has its stop below the
\* entry limit, the entry limit below the profit target, and a quantity of
\* at least 1; a signal whose rounded pullback low is not below the entry
\* limit places no order and leaves the tracking of the symbol alone.
C38_EntryPlanValid ==
    [][PlanReturns =>
          LET s == SymOrder[idx] IN
          /\ NewOrders # <<>> =>
                /\ NewOrders[1].action = "BUY"
                /\ NewOrders[1].qty >= 1
                /\ stop_price'[s] < NewOrders[1].price
                /\ NewOrders[1].price < profit_target_price'[s]
          /\ result'[s] = "INVALID STOP" =>
                UNCHANGED <<progVars, orders, outbox>>]_allVars

\* ======================================================================
\* The money of the BacktestEngine (Self/RossCameron-Backtest.py):
\* check_entry_conditions with enter_position, and exit_position, called in
\* turn as run_backtest calls them.  The prices and the share count come
\* from the strategy module, and so does calculate_commission: they are
\* inputs here.  Amounts are in cents and exact: the rounding of the
\* program's floats is left out.
\* ======================================================================

\* Trades of a run.
MaxTrades == 2
\* entry_price and exit_price (cents).
LedgerPrices == {100, 250}
\* shares, as calculate_position_size returns them.
LedgerShares == {1, 300}
\* What calculate_commission returns (cents).
Commissions == {0, 35}

\* (An entry whatever it costs.)
never_too_expensive(cost) == FALSE
\* if cost > self.capital: no entry
too_expensive(cost) == cost > capital

\* (A net pnl that leaves the buy commission out.)
pnl_without_buy_commission(pnl_gross, buy_commission, sell_commission) ==
    pnl_gross - sell_commission
\* total_commission = buy_commission + sell_commission;
\* pnl_net = pnl_gross - total_commission
pnl_net(pnl_gross, buy_commission, sell_commission) ==
    pnl_gross - (buy_commission + sell_commission)

\* self.position is None: check_entry_conditions up to the capital test,
\* and enter_position when it says should_enter.
EnterPosition ==
    /\ UNCHANGED <<vars, feedOwn, condOwn, scanOwn, backOwn, dataOwn, callOwn>>
    /\ held = NoHolding
    /\ Len(ledger) < MaxTrades
    /\ \E entry \in LedgerPrices, shares \in LedgerShares,
          buy_commission \in Commissions :
          LET cost == entry * shares IN
          IF too_expensive(cost)
          THEN UNCHANGED <<capital, held>>
          ELSE /\ held' = [entry_price |-> entry, shares |-> shares,
                           buy_commission |-> buy_commission]
               /\ capital' = capital - (cost + buy_commission)
    /\ UNCHANGED ledger

\* exit_position with a position: the proceeds less the sell commission go
\* to the capital, the trade is recorded and the position is None.
ExitPosition ==
    /\ UNCHANGED <<vars, feedOwn, condOwn, scanOwn, backOwn, dataOwn, callOwn>>
    /\ held # NoHolding
    /\ \E exit_price \in LedgerPrices, sell_commission \in Commissions :
          LET proceeds == exit_price * held.shares
              pnl_gross == (exit_price - held.entry_price) * held.shares
          IN
          /\ capital' = capital + (proceeds - sell_commission)
          /\ ledger' = Append(ledger,
                [pnl |-> pnl_net(pnl_gross, held.buy_commission,
                                 sell_commission),
                 pnl_gross |-> pnl_gross,
                 commission |-> held.buy_commission + sell_commission])
    /\ held' = NoHolding

LedgerNext == EnterPosition \/ ExitPosition
SpecLedger == Init /\ [][LedgerNext]_allVars

RECURSIVE SumPnl(_, _)
\* sum([t['pnl'] for t in self.trades[:k]])
SumPnl(log, k) == IF k = 0 THEN 0 ELSE SumPnl(log, k - 1) + log[k].pnl

\* C39: whenever no position is open, capital - initial_capital is the sum
\* of the net pnl of the recorded trades, the net pnl of a trade being its
\* gross pnl less its buy and its sell commission; and an entry is taken
\* only when entry_price * shares is at most the capital.
C39_CapitalIsSumOfPnl ==
    /\ [](held = NoHolding =>
            /\ capital - initial_capital = SumPnl(ledger, Len(ledger))
            /\ \A k \in 1..Len(ledger) :
                  ledger[k].pnl = ledger[k].pnl_gross - ledger[k].commission)
    /\ [][(held = NoHolding /\ held' # NoHolding) =>
             held'.entry_price * held'.shares <= capital]_allVars

\* Two trades have been closed, the first at a loss with both commissions
\* paid, the second at a gain.
C39_Witness ==
    /\ held = NoHolding
    /\ Len(ledger) = 2
    /\ ledger[1].pnl < 0 /\ ledger[1].commission = 70
    /\ ledger[2].pnl > 0
    /\ capital # initial_capital

\* ======================================================================
\* The positions of run_backtest, under SpecBacktest.
\* ======================================================================

\* The step enters a position.
EntersPosition == bt_position' # 0 /\ bt_position' # bt_position
\* The step closes the position that is open.
ClosesPosition == bt_position # 0 /\ bt_position' # bt_position

\* C40: run_backtest holds at most one position at a time and closes every
\* position it has entered exactly once: a position gives way only to its
\* own trade, a trade is recorded only for the open position, no trade
\* ends before its entry, no position is recorded twice, and after the
\* loop and its END OF BACKTEST close no position is open.
C40_EveryPositionClosedOnce ==
    /\ [][/\ ClosesPosition <=> Len(trades') = Len(trades) + 1
          /\ Len(trades') \in {Len(trades), Len(trades) + 1}
          /\ ClosesPosition =>
                /\ SubSeq(trades', 1, Len(trades)) = trades
                /\ trades'[Len(trades')].entry_bar = bt_position
          /\ EntersPosition => (bt_position = 0 \/ ClosesPosition)]_allVars
    /\ [](/\ \A k \in 1..Len(trades) :
               /\ trades[k].exit_bar >= trades[k].entry_bar
               /\ trades[k].entry_bar # bt_position
               /\ \A j \in 1..Len(trades) :
                     trades[j].entry_bar = trades[k].entry_bar => j = k
          /\ finished => bt_position = 0)

\* The run is over with three trades: the position entered on the last bar
\* was closed at that bar as END OF BACKTEST.
C40_Witness ==
    /\ finished
    /\ Len(trades) = 3
    /\ trades[3].exit_reason = "END OF BACKTEST"
    /\ trades[3].entry_bar = MaxBars
    /\ trades[3].exit_bar = MaxBars

============================================================================
